---- MODULE Spec2Model ----
(***************************************************************************)
(* Benefit (VR/VA) pipeline of multAgentAnalytics: the dataset aggregate   *)
(* (DadosEntrada) flowing through Limpeza -> Calculador -> Validador ->    *)
(* Gerador under the Coordenador.                                          *)
(*                                                                         *)
(* Representation                                                          *)
(*   - texts that the code converts or searches (cargo, situacao) are      *)
(*     sequences of one-character strings, so that lower() and the         *)
(*     substring test `k in texto` are computed;                           *)
(*   - a matricula is [tipo, num, pad]: an int cell or a str cell of the   *)
(*     spreadsheet, pad = the str carries surrounding blanks, so that      *)
(*     str() and strip() are computed;                                     *)
(*   - an optional int (dias_trabalhados, dias_uteis) is << >> for None    *)
(*     and <<n>> for the int n;                                            *)
(*   - money is an integer number of 1/10000 currency units (Decimal       *)
(*     arithmetic of the code is exact, and so is this);                   *)
(*   - a percentage is an integer number of hundredths (0.80 is 80).       *)
(***************************************************************************)
EXTENDS Integers, Sequences, FiniteSets, TLC

VARIABLES
    entrada,     \* the dataset as it was handed to the first stage
    fase,        \* position of the run: which stage boundary was reached
    dados,       \* the DadosEntrada aggregate
    erros,       \* AgenteValidador.erros  (BaseAgente.erros)
    warnings,    \* AgenteValidador.warnings
    resultado,   \* dict returned by AgenteValidador._executar_agente
    execucoes    \* number of Limpeza executions applied to `dados`

vars == <<entrada, fase, dados, erros, warnings, resultado, execucoes>>

-----------------------------------------------------------------------------
(* Bounds of the model *)

MaxAtivos == 2
MaxExecucoesLimpeza == 2

-----------------------------------------------------------------------------
(* Python values *)

None == << >>
Some(n) == <<n>>
IsNone(x) == x = << >>
Val(x) == x[1]

Range(s) == {s[i] : i \in DOMAIN s}

RECURSIVE Concat(_)
Concat(ss) == IF ss = << >> THEN << >> ELSE Head(ss) \o Concat(Tail(ss))

RECURSIVE Soma(_)
Soma(s) == IF s = << >> THEN 0 ELSE Head(s) + Soma(Tail(s))

Abs(x) == IF x < 0 THEN -x ELSE x

(* [x for x in s if ...]: `manter` tells, position by position, what stays *)
Filtrar(s, manter) ==
    LET F[i \in 0..Len(s)] ==
            IF i = 0 THEN << >>
            ELSE IF manter[i] THEN Append(F[i-1], s[i]) ELSE F[i-1]
    IN F[Len(s)]

(* str.lower(): the letters that occur in the modelled texts *)
Lower(t) ==
    LET ParesMaiusculas ==
            { <<"A","a">>, <<"C","c">>, <<"D","d">>, <<"E","e">>, <<"G","g">>,
              <<"I","i">>, <<"L","l">>, <<"M","m">>, <<"N","n">>, <<"O","o">>,
              <<"P","p">>, <<"R","r">>, <<"S","s">>, <<"T","t">>, <<"U","u">>,
              <<"X","x">>, <<"Z","z">>, <<"Ç","ç">>, <<"Í","í">> }
        LowerChar(c) ==
            IF \E p \in ParesMaiusculas : p[1] = c
            THEN (CHOOSE p \in ParesMaiusculas : p[1] = c)[2]
            ELSE c
    IN  [i \in DOMAIN t |-> LowerChar(t[i])]

(* `k in t` of two str *)
Contains(t, k) ==
    \E i \in 0..(Len(t) - Len(k)) : SubSeq(t, i + 1, i + Len(k)) = k

AnyIn(ks, t) == \E k \in ks : Contains(t, k)

(* str(matricula) and str.strip() *)
Str(m) == IF m.tipo = "int" THEN [tipo |-> "str", num |-> m.num, pad |-> FALSE] ELSE m
Strip(m) == [m EXCEPT !.pad = FALSE]

(* `m in lista` of a Python list: element equality, no conversion *)
InList(m, lista) == \E i \in DOMAIN lista : lista[i] = m

(* datetime / None / a value without a .day attribute *)
SemData == [tipo |-> "none", dia |-> 0, mes |-> 0]
Data(d, m) == [tipo |-> "date", dia |-> d, mes |-> m]
DataTexto == [tipo |-> "str", dia |-> 0, mes |-> 0]
Truthy(data) == data.tipo # "none"
HasDay(data) == data.tipo = "date"

-----------------------------------------------------------------------------
(* Texts: role and situation cells of the ATIVOS sheet, and the keywords   *)
(* the agents search them for                                              *)

CargoAnalista ==  \* "Analista"
    << "A", "n", "a", "l", "i", "s", "t", "a" >>
CargoDiretor ==  \* "Diretor"
    << "D", "i", "r", "e", "t", "o", "r" >>
CargoEstagiario ==  \* "ESTAGIARIO"
    << "E", "S", "T", "A", "G", "I", "A", "R", "I", "O" >>
CargoAprendiz ==  \* "Aprendiz"
    << "A", "p", "r", "e", "n", "d", "i", "z" >>
CargoCoordenadorAprendiz ==  \* "Coordenador Aprendiz"
    << "C", "o", "o", "r", "d", "e", "n", "a", "d", "o", "r", " ", "A", "p",
       "r", "e", "n", "d", "i", "z" >>
CargoPresidente ==  \* "Presidente"
    << "P", "r", "e", "s", "i", "d", "e", "n", "t", "e" >>
CargoEstagiarioAprendiz ==  \* "Estagiario Aprendiz"
    << "E", "s", "t", "a", "g", "i", "a", "r", "i", "o", " ", "A", "p", "r",
       "e", "n", "d", "i", "z" >>
SituacaoTrabalhando ==  \* "Trabalhando"
    << "T", "r", "a", "b", "a", "l", "h", "a", "n", "d", "o" >>
SituacaoLicenca ==  \* "Licença Maternidade"
    << "L", "i", "c", "e", "n", "ç", "a", " ", "M", "a", "t", "e", "r", "n",
       "i", "d", "a", "d", "e" >>
SituacaoAuxilio ==  \* "AUXÍLIO DOENÇA"
    << "A", "U", "X", "Í", "L", "I", "O", " ", "D", "O", "E", "N", "Ç", "A" >>

KwEstagiario ==  \* 'estagiario'
    << "e", "s", "t", "a", "g", "i", "a", "r", "i", "o" >>
KwAprendiz ==  \* 'aprendiz'
    << "a", "p", "r", "e", "n", "d", "i", "z" >>
KwDiretor ==  \* 'diretor'
    << "d", "i", "r", "e", "t", "o", "r" >>
KwCoordenador ==  \* 'coordenador'
    << "c", "o", "o", "r", "d", "e", "n", "a", "d", "o", "r" >>

(* the list of removed roles without the apprentices *)
cargos_excluidos_sem_aprendiz == { KwEstagiario }

(* limpeza.py: cargos_excluidos = ['estagiario', 'aprendiz'] *)
cargos_excluidos == { KwEstagiario, KwAprendiz }

(* the kept roles without the coordinators *)
cargos_diretoria_sem_coordenador == { KwDiretor }

(* limpeza.py: ['diretor', 'coordenador'] *)
cargos_diretoria == { KwDiretor, KwCoordenador }

(* limpeza.py: situacoes_excluidas = ['licença maternidade', 'auxílio doença'] *)
situacoes_excluidas ==
    { << "l", "i", "c", "e", "n", "ç", "a", " ", "m", "a", "t", "e", "r", "n",
         "i", "d", "a", "d", "e" >>,
      << "a", "u", "x", "í", "l", "i", "o", " ", "d", "o", "e", "n", "ç", "a" >> }

(* validador.py: cargos_diretores of _validar_diretores *)
cargos_diretores ==
    { KwDiretor,
      << "d", "i", "r", "e", "t", "o", "r", " ", "g", "e", "r", "a", "l" >>,
      << "d", "i", "r", "e", "t", "o", "r", " ", "e", "x", "e", "c", "u", "t",
         "i", "v", "o" >>,
      << "d", "i", "r", "e", "t", "o", "r", " ", "a", "d", "m", "i", "n", "i",
         "s", "t", "r", "a", "t", "i", "v", "o" >>,
      << "d", "i", "r", "e", "t", "o", "r", " ", "f", "i", "n", "a", "n", "c",
         "e", "i", "r", "o" >>,
      << "d", "i", "r", "e", "t", "o", "r", " ", "c", "o", "m", "e", "r", "c",
         "i", "a", "l" >>,
      << "d", "i", "r", "e", "t", "o", "r", " ", "d", "e", " ", "o", "p", "e",
         "r", "a", "ç", "õ", "e", "s" >>,
      << "d", "i", "r", "e", "t", "o", "r", " ", "d", "e", " ", "r", "h" >>,
      << "d", "i", "r", "e", "t", "o", "r", " ", "d", "e", " ", "t", "i" >>,
      << "p", "r", "e", "s", "i", "d", "e", "n", "t", "e" >>,
      << "v", "i", "c", "e", "-", "p", "r", "e", "s", "i", "d", "e", "n", "t",
         "e" >>,
      << "c", "e", "o" >>, << "c", "f", "o" >>, << "c", "t", "o" >>,
      << "c", "o", "o" >>,
      KwCoordenador }

-----------------------------------------------------------------------------
(* Settings (config/settings.py) *)

CUSTO_EMPRESA_PERCENTUAL == 80
CUSTO_PROFISSIONAL_PERCENTUAL == 20
DIA_LIMITE_DESLIGAMENTO == 15

Politica(pe, pp, tipo, dmin, dmax, especial, du) ==
    [ percentual_empresa |-> pe, percentual_profissional |-> pp,
      tipo |-> tipo, dias_minimos |-> dmin, dias_maximos |-> dmax,
      regra_especial |-> especial,
      \* 'Admissão proporcional' and 'Desligamento proporcional' are in
      \* regras_especiais exactly for the entries that give a regra_especial
      regras_proporcionais |-> especial,
      dias_uteis_mes |-> du ]

(* Settings.CONFIGURACAO_SINDICATOS: split percentages, regras_ferias      *)
(* (tipo, dias_minimos, dias_maximos, whether a regra_especial text is     *)
(* given) and dias_uteis_mes of each shipped entry                         *)
CONFIGURACAO_SINDICATOS ==
    [ s \in { "Paraná", "Rio de Janeiro", "Rio Grande do Sul", "São Paulo",
              "SINDICATO_METALURGICOS", "SINDICATO_QUIMICOS",
              "SINDICATO_BANCARIOS", "SINDICATO_COMERCIARIOS",
              "SINDICATO_TRANSPORTADORES" } |->
        CASE s = "Paraná"                    -> Politica(80, 20, "parcial", 10, 30, FALSE, 23)
          [] s = "Rio de Janeiro"            -> Politica(80, 20, "parcial", 10, 30, FALSE, 22)
          [] s = "Rio Grande do Sul"         -> Politica(80, 20, "parcial", 10, 30, FALSE, 22)
          [] s = "São Paulo"                 -> Politica(80, 20, "parcial", 10, 30, FALSE, 22)
          [] s = "SINDICATO_METALURGICOS"    -> Politica(80, 20, "parcial", 15, 30, TRUE, 23)
          [] s = "SINDICATO_QUIMICOS"        -> Politica(80, 20, "integral", 30, 30, TRUE, 23)
          [] s = "SINDICATO_BANCARIOS"       -> Politica(85, 15, "parcial", 10, 30, TRUE, 22)
          [] s = "SINDICATO_COMERCIARIOS"    -> Politica(80, 20, "parcial", 20, 30, TRUE, 23)
          [] s = "SINDICATO_TRANSPORTADORES" -> Politica(80, 20, "integral", 30, 30, TRUE, 23) ]

-----------------------------------------------------------------------------
(* DadosEntrada (models/dados_entrada.py) *)

(* dict.get(chave, 0) of config_sindicatos / dias_uteis_por_sindicato *)
Get(cfg, chave) == IF chave \in DOMAIN cfg THEN cfg[chave] ELSE 0

(* adicionar_exclusao_*: append unless already in the list *)
AdicionarExclusao(lista, matricula) ==
    IF InList(matricula, lista) THEN lista ELSE Append(lista, matricula)

(* A row of ATIVOS as _ler_ativos builds it, completed by                  *)
(* adicionar_colaborador_ativo's setdefault calls                          *)
adicionar_colaborador_ativo(matricula, cargo, situacao, sindicato, dias_trabalhados) ==
    [ matricula |-> matricula, nome |-> "", cargo |-> cargo, situacao |-> situacao,
      sindicato |-> sindicato,
      data_admissao |-> SemData,
      dias_uteis |-> None,
      dias_trabalhados |-> dias_trabalhados,
      ativo |-> TRUE, elegivel |-> TRUE,
      valor_vr |-> 0, valor_total_beneficio |-> 0,
      custo_empresa |-> 0, desconto_profissional |-> 0,
      em_ferias |-> FALSE, dias_ferias |-> 0,
      data_desligamento |-> SemData,
      motivo_exclusao |-> "" ]

(* obter_matriculas_excluidas / the set built by _excluir_por_matricula *)
obter_matriculas_excluidas(d) ==
    { Str(m) : m \in Range(d.colaboradores_exterior) \cup Range(d.colaboradores_estagio)
                     \cup Range(d.colaboradores_aprendiz) \cup Range(d.colaboradores_afastados) }

-----------------------------------------------------------------------------
(* AgenteLimpeza (agents/limpeza.py) *)

(* list.remove(x): drops the first element equal to x *)
RECURSIVE RemoveFirst(_, _)
RemoveFirst(lista, x) ==
    IF lista = << >> THEN << >>
    ELSE IF Head(lista) = x THEN Tail(lista)
    ELSE <<Head(lista)>> \o RemoveFirst(Tail(lista), x)

(* the director / coordinator branch of _excluir_por_cargo *)
MarcarDiretoria(c) ==
    [c EXCEPT !.elegivel = FALSE,
              !.dias_trabalhados = Some(0),
              !.motivo_exclusao = "CARGO_DIRETORIA/COORDENACAO"]

(* One iteration of the loop of _excluir_por_cargo over the copy          *)
(* colaboradores_ativos[:].  e = [d, removidos]; `copia` is the copy, i    *)
(* the position in it; the record's place in the live list is i minus the  *)
(* number of records removed so far.                                       *)
PassoCargo(e, copia, i) ==
    LET c == copia[i]
        cargo == Lower(c.cargo)
        pos == i - e.removidos
    IN  IF AnyIn(cargos_diretoria, cargo)
        THEN [e EXCEPT !.d.colaboradores_ativos[pos] = MarcarDiretoria(c)]
        ELSE IF AnyIn(cargos_excluidos, cargo)
        THEN LET d1 == [e.d EXCEPT !.colaboradores_ativos = RemoveFirst(@, c)]
                 d2 == IF Contains(cargo, KwEstagiario)
                       THEN [d1 EXCEPT !.colaboradores_estagio = AdicionarExclusao(@, c.matricula)]
                       ELSE IF Contains(cargo, KwAprendiz)
                       THEN [d1 EXCEPT !.colaboradores_aprendiz = AdicionarExclusao(@, c.matricula)]
                       ELSE d1
             IN  [d |-> d2, removidos |-> e.removidos + 1]
        ELSE e

RECURSIVE LacoCargo(_, _, _)
LacoCargo(e, copia, i) ==
    IF i > Len(copia) THEN e ELSE LacoCargo(PassoCargo(e, copia, i), copia, i + 1)

_excluir_por_cargo(d) ==
    LacoCargo([d |-> d, removidos |-> 0], d.colaboradores_ativos, 1).d

(* One iteration of the loop of _excluir_por_situacao *)
PassoSituacao(d, c) ==
    IF AnyIn(situacoes_excluidas, Lower(c.situacao))
    THEN [d EXCEPT !.colaboradores_ativos = RemoveFirst(@, c),
                   !.colaboradores_afastados = AdicionarExclusao(@, c.matricula)]
    ELSE d

RECURSIVE LacoSituacao(_, _, _)
LacoSituacao(d, copia, i) ==
    IF i > Len(copia) THEN d ELSE LacoSituacao(PassoSituacao(d, copia[i]), copia, i + 1)

_excluir_por_situacao(d) == LacoSituacao(d, d.colaboradores_ativos, 1)

(* str(colaborador.get('matricula')) in matriculas_excluidas *)
MatriculaExcluida(d, c) == Str(c.matricula) \in obter_matriculas_excluidas(d)

_excluir_por_matricula(d) ==
    [d EXCEPT !.colaboradores_ativos =
        Filtrar(@, [i \in DOMAIN @ |-> ~MatriculaExcluida(d, @[i])])]

(* str(a).strip() == str(b).strip() *)
MesmaMatricula(a, b) == Strip(Str(a)) = Strip(Str(b))

(* index of the first entry of a side table with the record's matricula,  *)
(* 0 when there is none (the inner for ... break)                          *)
Busca(tabela, matricula) ==
    IF \E j \in DOMAIN tabela : MesmaMatricula(tabela[j].matricula, matricula)
    THEN CHOOSE j \in DOMAIN tabela :
            /\ MesmaMatricula(tabela[j].matricula, matricula)
            /\ \A k \in 1..(j - 1) : ~MesmaMatricula(tabela[k].matricula, matricula)
    ELSE 0

(* the days of férias added to those already on the record *)
FeriasDeAcumuladas(d, c) ==
    LET j == Busca(d.colaboradores_ferias, c.matricula)
    IN  IF j = 0 THEN c
        ELSE [c EXCEPT !.em_ferias = TRUE,
                       !.dias_ferias = @ + d.colaboradores_ferias[j].dias_ferias]

FeriasDe(d, c) ==
    LET j == Busca(d.colaboradores_ferias, c.matricula)
    IN  IF j = 0 THEN c
        ELSE [c EXCEPT !.em_ferias = TRUE,
                       !.dias_ferias = d.colaboradores_ferias[j].dias_ferias]

_processar_ferias(d) ==
    [d EXCEPT !.colaboradores_ativos = [i \in DOMAIN @ |-> FeriasDe(d, @[i])]]

(* data.day if hasattr(data, 'day') else 15 *)
DiaDe(data) == IF HasDay(data) THEN data.dia ELSE 15

(* the rule of day 15 with the limit day itself counted as worked *)
RegraDia15Exclusivo(c, data) ==
    IF DiaDe(data) < DIA_LIMITE_DESLIGAMENTO
    THEN [c EXCEPT !.elegivel = FALSE, !.dias_trabalhados = Some(0)]
    ELSE [c EXCEPT !.elegivel = TRUE, !.dias_trabalhados = Some(DiaDe(data) - 1)]

(* the rule of day 15 with the day of termination counted as worked *)
RegraDia15DiaCheio(c, data) ==
    IF DiaDe(data) <= DIA_LIMITE_DESLIGAMENTO
    THEN [c EXCEPT !.elegivel = FALSE, !.dias_trabalhados = Some(0)]
    ELSE [c EXCEPT !.elegivel = TRUE, !.dias_trabalhados = Some(DiaDe(data))]

(* the rule of day 15 as _processar_desligamentos applies it *)
RegraDia15(c, data) ==
    IF DiaDe(data) <= DIA_LIMITE_DESLIGAMENTO
    THEN [c EXCEPT !.elegivel = FALSE, !.dias_trabalhados = Some(0)]
    ELSE [c EXCEPT !.elegivel = TRUE, !.dias_trabalhados = Some(DiaDe(data) - 1)]

DesligamentoDe(d, c) ==
    LET j == Busca(d.colaboradores_desligados, c.matricula)
    IN  IF j = 0 THEN c
        ELSE LET data == d.colaboradores_desligados[j].data_demissao
                 c1 == [c EXCEPT !.ativo = FALSE, !.data_desligamento = data]
             IN  IF Truthy(data) THEN RegraDia15(c1, data) ELSE c1

_processar_desligamentos(d) ==
    [d EXCEPT !.colaboradores_ativos = [i \in DOMAIN @ |-> DesligamentoDe(d, @[i])]]

(* the passes with the exclusion by matricula run first *)
LimpezaMatriculaPrimeiro(d) ==
    _processar_desligamentos(
        _processar_ferias(
            _excluir_por_situacao(
                _excluir_por_cargo(
                    _excluir_por_matricula(d)))))

(* AgenteLimpeza._executar_agente *)
Limpeza(d) ==
    _processar_desligamentos(
        _processar_ferias(
            _excluir_por_matricula(
                _excluir_por_situacao(
                    _excluir_por_cargo(d)))))

-----------------------------------------------------------------------------
(* AgenteCalculador (agents/calculador.py) *)

(* Decimal(str(valor_diario_float)): a value of the sheet, given in cents *)
DecimalDe(centavos) == centavos * 100

(* total * Decimal(str(percentual)), the percentage in hundredths *)
Percentual(total, perc) == (total * perc) \div 100

DesligamentoCalculador(c) ==
    IF ~c.ativo /\ Truthy(c.data_desligamento)
    THEN RegraDia15(c, c.data_desligamento)
    ELSE c

_aplicar_regras_desligamento(d) ==
    [d EXCEPT !.colaboradores_ativos = [i \in DOMAIN @ |-> DesligamentoCalculador(@[i])]]

(* the vacation rule making the record ineligible without zeroing its days *)
FeriasCalculadorSemZerar(c) ==
    IF c.em_ferias THEN [c EXCEPT !.elegivel = FALSE] ELSE c

FeriasCalculador(c) ==
    IF c.em_ferias
    THEN [c EXCEPT !.dias_trabalhados = Some(0), !.elegivel = FALSE]
    ELSE c

_aplicar_regras_ferias(d) ==
    [d EXCEPT !.colaboradores_ativos = [i \in DOMAIN @ |-> FeriasCalculador(@[i])]]

(* the record is computed: none of the `continue` guards applies *)
Calculavel(d, c) ==
    /\ c.elegivel
    /\ c.sindicato # ""
    /\ Get(d.config_sindicatos, c.sindicato) # 0
    /\ Get(d.dias_uteis_por_sindicato, c.sindicato) > 0

(* A dias_trabalhados cell that is neither None (<< >>) nor an int        *)
(* (<<n>>): a float, given in tenths, or a str, given by its characters    *)
Flutuante(decimos) == << "float", decimos >>
Texto(caracteres) == << "str", caracteres >>

(* str.strip() of a text *)
StripTexto(texto) ==
    LET RECURSIVE Esquerda(_)
        Esquerda(t) == IF t # << >> /\ Head(t) = " " THEN Esquerda(Tail(t)) ELSE t
        RECURSIVE Direita(_)
        Direita(t) == IF t # << >> /\ t[Len(t)] = " "
                      THEN Direita(SubSeq(t, 1, Len(t) - 1)) ELSE t
    IN  Direita(Esquerda(texto))

(* float(texto): blanks around, an optional sign, digits with at most one  *)
(* point and at least one digit; ok = FALSE is the ValueError.  `inteiro`  *)
(* is the value of the digits before the point                             *)
ParseFloat(texto) ==
    LET Digitos == << "0", "1", "2", "3", "4", "5", "6", "7", "8", "9" >>
        EhDigito(ch) == \E k \in DOMAIN Digitos : Digitos[k] = ch
        ValorDigito(ch) == (CHOOSE k \in DOMAIN Digitos : Digitos[k] = ch) - 1
        RECURSIVE ValorDigitos(_)
        ValorDigitos(t) ==
            IF t = << >> THEN 0
            ELSE ValorDigitos(SubSeq(t, 1, Len(t) - 1)) * 10 + ValorDigito(t[Len(t)])
        t == StripTexto(texto)
        sinal == IF t # << >> /\ Head(t) = "-" THEN -1 ELSE 1
        corpo == IF t # << >> /\ Head(t) \in {"-", "+"} THEN Tail(t) ELSE t
        pontos == {k \in DOMAIN corpo : corpo[k] = "."}
        antes == IF pontos = {} THEN corpo
                 ELSE SubSeq(corpo, 1, (CHOOSE k \in pontos : TRUE) - 1)
        ok == /\ Cardinality(pontos) <= 1
              /\ \A k \in DOMAIN corpo : EhDigito(corpo[k]) \/ corpo[k] = "."
              /\ \E k \in DOMAIN corpo : EhDigito(corpo[k])
    IN  [ok |-> ok, sinal |-> sinal, inteiro |-> IF ok THEN ValorDigitos(antes) ELSE 0]

(* dt_raw is None or (isinstance(dt_raw, str) and dt_raw.strip() == '') *)
DiasEmBranco(dt_raw) ==
    IsNone(dt_raw) \/ (Len(dt_raw) = 2 /\ dt_raw[1] = "str" /\ StripTexto(dt_raw[2]) = << >>)

(* try: int(float(dt_raw)) except Exception: int(dias_uteis); int() of a   *)
(* float, given in tenths, truncates towards zero                          *)
IntDeFloat(dt_raw, dias_uteis) ==
    IF Len(dt_raw) = 1 THEN Val(dt_raw)
    ELSE IF dt_raw[1] = "float"
    THEN IF dt_raw[2] >= 0 THEN dt_raw[2] \div 10 ELSE -((-dt_raw[2]) \div 10)
    ELSE IF ParseFloat(dt_raw[2]).ok
    THEN ParseFloat(dt_raw[2]).sinal * ParseFloat(dt_raw[2]).inteiro
    ELSE dias_uteis

(* the resolution with a falsy cell (0 included) taken for a missing one *)
DiasResolvidosZeroAusente(dt_raw, dias_uteis) ==
    LET dt_int == IF DiasEmBranco(dt_raw) \/ (Len(dt_raw) = 1 /\ Val(dt_raw) = 0)
                  THEN dias_uteis
                  ELSE IntDeFloat(dt_raw, dias_uteis)
    IN  IF dt_int < 0 THEN 0 ELSE dt_int

(* days-worked resolution: None or blank -> dias_uteis; int(float(x)),     *)
(* dias_uteis when that raises; < 0 -> 0                                   *)
DiasResolvidos(dt_raw, dias_uteis) ==
    LET dt_int == IF DiasEmBranco(dt_raw) THEN dias_uteis
                  ELSE IntDeFloat(dt_raw, dias_uteis)
    IN  IF dt_int < 0 THEN 0 ELSE dt_int

(* the company charged with the whole benefit *)
CustoEmpresaIntegral(valor_total) == valor_total

CustoEmpresa(valor_total) == Percentual(valor_total, CUSTO_EMPRESA_PERCENTUAL)

(* the deduction taken with the company's percentage *)
DescontoProfissionalDaEmpresa(valor_total) == Percentual(valor_total, CUSTO_EMPRESA_PERCENTUAL)

DescontoProfissional(valor_total) == Percentual(valor_total, CUSTO_PROFISSIONAL_PERCENTUAL)

(* the total taken over the month's working days while the resolved days  *)
(* worked are stored                                                       *)
BeneficioDeDiasUteis(d, c) ==
    IF ~Calculavel(d, c) THEN c
    ELSE LET valor_diario == DecimalDe(Get(d.config_sindicatos, c.sindicato))
             dias_uteis == Get(d.dias_uteis_por_sindicato, c.sindicato)
             dt_int == DiasResolvidos(c.dias_trabalhados, dias_uteis)
             valor_total == valor_diario * dias_uteis
         IN  [c EXCEPT !.valor_vr = valor_diario,
                       !.dias_uteis = Some(dias_uteis),
                       !.dias_trabalhados = Some(dt_int),
                       !.valor_total_beneficio = valor_total,
                       !.custo_empresa = CustoEmpresa(valor_total),
                       !.desconto_profissional = DescontoProfissional(valor_total)]

BeneficioDe(d, c) ==
    IF ~Calculavel(d, c) THEN c
    ELSE LET valor_diario == DecimalDe(Get(d.config_sindicatos, c.sindicato))
             dias_uteis == Get(d.dias_uteis_por_sindicato, c.sindicato)
             dt_int == DiasResolvidos(c.dias_trabalhados, dias_uteis)
             valor_total == valor_diario * dt_int
         IN  [c EXCEPT !.valor_vr = valor_diario,
                       !.dias_uteis = Some(dias_uteis),
                       !.dias_trabalhados = Some(dt_int),
                       !.valor_total_beneficio = valor_total,
                       !.custo_empresa = CustoEmpresa(valor_total),
                       !.desconto_profissional = DescontoProfissional(valor_total)]

_calcular_beneficios(d) ==
    [d EXCEPT !.colaboradores_ativos = [i \in DOMAIN @ |-> BeneficioDe(d, @[i])]]

Elegiveis(d) ==
    Filtrar(d.colaboradores_ativos,
            [i \in DOMAIN d.colaboradores_ativos |-> d.colaboradores_ativos[i].elegivel])

Campo(lista, nome) == [i \in DOMAIN lista |-> lista[i][nome]]

_calcular_totais(d) ==
    [d EXCEPT !.total_beneficios = Soma(Campo(Elegiveis(d), "valor_total_beneficio")),
              !.total_custo_empresa = Soma(Campo(Elegiveis(d), "custo_empresa")),
              !.total_desconto_profissionais = Soma(Campo(Elegiveis(d), "desconto_profissional")),
              !.colaboradores_validos = Len(Elegiveis(d))]

(* AgenteCalculador._executar_agente *)
Calculador(d) ==
    _calcular_totais(
        _calcular_beneficios(
            _aplicar_regras_ferias(
                _aplicar_regras_desligamento(d))))

(* AgenteCoordenador._executar_fase_calculos: runs the Calculador, then    *)
(* overwrites the three totals with sums over every record of the list     *)
_executar_fase_calculos(d) ==
    LET dc == Calculador(d)
    IN  [dc EXCEPT !.total_beneficios = Soma(Campo(dc.colaboradores_ativos, "valor_total_beneficio")),
                   !.total_custo_empresa = Soma(Campo(dc.colaboradores_ativos, "custo_empresa")),
                   !.total_desconto_profissionais = Soma(Campo(dc.colaboradores_ativos, "desconto_profissional"))]

-----------------------------------------------------------------------------
(* AgenteValidador (agents/validador.py) *)

SemMatricula == [tipo |-> "none", num |-> 0, pad |-> FALSE]

(* an entry of self.erros / self.warnings or of a returned message list:   *)
(* which check produced it, and the matricula its text names               *)
Msg(regra, matricula) == [regra |-> regra, matricula |-> matricula]

(* `not matricula`: None or '' *)
MatriculaAusente(m) == m.tipo = "none" \/ (m.tipo = "str" /\ m.num = 0 /\ ~m.pad)

(* str(matricula).strip() == '' *)
MatriculaEmBranco(m) == m.tipo = "str" /\ m.num = 0

(* v: the state a validation pass threads through its rules                *)
(*   d            the dataset                                              *)
(*   erros        self.erros                                               *)
(*   warnings     self.warnings                                            *)
(*   erros_list, warnings_list   the local accumulators of _executar_agente *)
(*   excecao      an exception escaped from a rule                         *)
ValidadorNovo(d) ==
    [ d |-> d, erros |-> << >>, warnings |-> << >>,
      erros_list |-> << >>, warnings_list |-> << >>, excecao |-> FALSE ]

(* what one iteration of a rule's loop did with one record *)
(* (afastar: the matriculas it passed to dados.adicionar_exclusao_afastado) *)
Efeito(c, es, ws, exc) ==
    [c |-> c, erros |-> es, warnings |-> ws, excecao |-> exc, afastar |-> << >>]

Nada(c) == Efeito(c, << >>, << >>, FALSE)

(* for colaborador in dados.colaboradores_ativos: <rule>; efeitos[i] is    *)
(* what the rule does with record i (a rule reads its own record and the   *)
(* tables only); the loop stops at the record whose iteration raises       *)
RECURSIVE Laco(_, _, _)
Laco(efeitos, v, i) ==
    IF v.excecao \/ i > Len(efeitos) THEN v
    ELSE LET r == efeitos[i]
         IN  Laco(efeitos,
                  [v EXCEPT !.d.colaboradores_ativos[i] = r.c,
                            !.d.colaboradores_afastados =
                                IF r.afastar = << >> THEN @
                                ELSE AdicionarExclusao(@, r.afastar[1]),
                            !.erros = @ \o r.erros,
                            !.warnings = @ \o r.warnings,
                            !.excecao = r.excecao],
                  i + 1)

(* the four rules that return a list: _validar_exterior, _validar_estagio, *)
(* _validar_aprendiz, _validar_afastados                                   *)
ListaExclusao(d, lista, regra) ==
    LET ativos == d.colaboradores_ativos
    IN  Concat([i \in DOMAIN ativos |->
                 IF InList(ativos[i].matricula, lista) /\ ativos[i].elegivel
                 THEN <<Msg(regra, ativos[i].matricula)>> ELSE << >>])

_validar_exclusoes(v) ==
    [v EXCEPT !.erros_list =
        @ \o ListaExclusao(v.d, v.d.colaboradores_exterior, "exterior")
          \o ListaExclusao(v.d, v.d.colaboradores_estagio, "estagio")
          \o ListaExclusao(v.d, v.d.colaboradores_aprendiz, "aprendiz")
          \o ListaExclusao(v.d, v.d.colaboradores_afastados, "afastado")]

_validar_acordos_coletivos(v) ==
    LET ativos == v.d.colaboradores_ativos
    IN  [v EXCEPT !.warnings_list =
            @ \o Concat([i \in DOMAIN ativos |->
                    IF ativos[i].sindicato \notin DOMAIN v.d.config_sindicatos
                    THEN <<Msg("sindicato_nao_configurado", ativos[i].matricula)>>
                    ELSE << >>])]

(* the rule without its duplicate check *)
_validar_matriculas_sem_duplicatas(v) ==
    LET ativos == v.d.colaboradores_ativos
        ausentes == Concat([i \in DOMAIN ativos |->
                        IF MatriculaAusente(ativos[i].matricula) \/ MatriculaEmBranco(ativos[i].matricula)
                        THEN <<Msg("matricula_ausente", SemMatricula)>> ELSE << >>])
    IN  [v EXCEPT !.erros = @ \o ausentes]

_validar_matriculas(v) ==
    LET ativos == v.d.colaboradores_ativos
        ausentes == Concat([i \in DOMAIN ativos |->
                        IF MatriculaAusente(ativos[i].matricula) \/ MatriculaEmBranco(ativos[i].matricula)
                        THEN <<Msg("matricula_ausente", SemMatricula)>> ELSE << >>])
        matriculas == Filtrar(ativos, [i \in DOMAIN ativos |->
                                          ~MatriculaAusente(ativos[i].matricula)])
        duplicadas ==
            Len(matriculas) # Cardinality({Strip(Str(matriculas[i].matricula)) : i \in DOMAIN matriculas})
    IN  [v EXCEPT !.erros = @ \o ausentes
                        \o (IF duplicadas THEN <<Msg("matriculas_duplicadas", SemMatricula)>> ELSE << >>)]

(* one 'Sindicatos sem valor' error for each sindicato without value *)
ErrosSemValorPorSindicato(sem_valor) ==
    [i \in 1..Cardinality(sem_valor) |-> Msg("sindicatos_sem_valor", SemMatricula)]

(* if sem_valor: self.adicionar_erro(f"Sindicatos sem valor: {list(sem_valor)}") *)
ErrosSemValor(sem_valor) ==
    IF sem_valor # {} THEN <<Msg("sindicatos_sem_valor", SemMatricula)>> ELSE << >>

_validar_consistencia(v) ==
    LET d == v.d
        sindicatos_ativos == {c.sindicato : c \in {x \in Range(d.colaboradores_ativos) : x.sindicato # ""}}
        sem_valor == sindicatos_ativos \ DOMAIN d.config_sindicatos
        sem_dias == sindicatos_ativos \ DOMAIN d.dias_uteis_por_sindicato
        valores_invalidos == {s \in DOMAIN d.config_sindicatos : d.config_sindicatos[s] <= 0}
        dias_invalidos == {s \in DOMAIN d.dias_uteis_por_sindicato :
                              d.dias_uteis_por_sindicato[s] <= 0 \/ d.dias_uteis_por_sindicato[s] > 31}
    IN  [v EXCEPT !.erros = @
            \o ErrosSemValor(sem_valor)
            \o (IF sem_dias # {} THEN <<Msg("sindicatos_sem_dias_uteis", SemMatricula)>> ELSE << >>)
            \o [i \in 1..Cardinality(valores_invalidos) |-> Msg("valor_invalido", SemMatricula)]
            \o [i \in 1..Cardinality(dias_invalidos) |-> Msg("dias_uteis_invalidos", SemMatricula)]]

(* one record of _validar_calculos *)
RegraCalculos(d, c) ==
    IF ~c.elegivel THEN Nada(c)
    ELSE IF c.valor_vr > 0 /\ IsNone(c.dias_trabalhados)
    THEN Efeito(c, << >>, << >>, TRUE)      \* None > 0 raises TypeError
    ELSE LET dt == IF IsNone(c.dias_trabalhados) THEN 0 ELSE Val(c.dias_trabalhados)
             e1 == IF c.valor_vr > 0 /\ dt > 0
                      /\ Abs(c.valor_vr * dt - c.valor_total_beneficio) > 100
                   THEN <<Msg("calculo_incorreto", c.matricula)>> ELSE << >>
             e2 == IF c.valor_total_beneficio > 0
                      /\ Abs(c.custo_empresa + c.desconto_profissional - c.valor_total_beneficio) > 100
                   THEN <<Msg("soma_percentuais", c.matricula)>> ELSE << >>
         IN  Efeito(c, e1 \o e2, << >>, FALSE)

_validar_calculos(v) ==
    Laco([i \in DOMAIN v.d.colaboradores_ativos |->
            RegraCalculos(v.d, v.d.colaboradores_ativos[i])], v, 1)

(* Settings.VALIDACOES_OBRIGATORIAS *)
VALIDACOES_OBRIGATORIAS == << "matricula", "sindicato" >>

(* the fields of the list that the record lacks (not                      *)
(* colaborador.get(campo)), 'nome' apart / 'nome'                          *)
CamposEmFalta(c, opcionais) ==
    LET CampoAusente(campo) ==
            CASE campo = "matricula" -> MatriculaAusente(c.matricula)
              [] campo = "nome" -> c.nome = ""
              [] campo = "sindicato" -> c.sindicato = ""
    IN  Filtrar(VALIDACOES_OBRIGATORIAS,
                [k \in DOMAIN VALIDACOES_OBRIGATORIAS |->
                    /\ CampoAusente(VALIDACOES_OBRIGATORIAS[k])
                    /\ (VALIDACOES_OBRIGATORIAS[k] = "nome") = opcionais])

(* one record of the "dados obrigatórios" loop of _validar_totais: a       *)
(* missing 'nome' is a warning, any other missing field an error           *)
RegraObrigatorios(d, c) ==
    Efeito(c,
           [k \in DOMAIN CamposEmFalta(c, FALSE) |->
               Msg(IF CamposEmFalta(c, FALSE)[k] = "matricula"
                   THEN "obrigatorio_matricula" ELSE "obrigatorio_sindicato",
                   c.matricula)],
           [k \in DOMAIN CamposEmFalta(c, TRUE) |-> Msg("opcional_nome", c.matricula)],
           FALSE)

_validar_totais(v) ==
    Laco([i \in DOMAIN v.d.colaboradores_ativos |->
            RegraObrigatorios(v.d, v.d.colaboradores_ativos[i])], v, 1)


(* the closing "Validação de elegibilidade para benefícios" block of       *)
(* _validar_ferias; dt is the local dias_trabalhados read before the       *)
(* policy branches ran                                                     *)
ElegibilidadeFerias(c, dt, politica) ==
    IF dt > 0
    THEN LET valor_total == c.valor_vr * dt
         IN  [c EXCEPT !.elegivel = TRUE,
                       !.valor_total_beneficio = valor_total,
                       !.custo_empresa = Percentual(valor_total, politica.percentual_empresa),
                       !.desconto_profissional = Percentual(valor_total, politica.percentual_profissional)]
    ELSE [c EXCEPT !.elegivel = FALSE,
                   !.valor_total_beneficio = 0,
                   !.custo_empresa = 0,
                   !.desconto_profissional = 0]

(* the 'integral' branch *)
FeriasIntegral(c, dt) ==
    Efeito([c EXCEPT !.elegivel = FALSE, !.dias_trabalhados = Some(0)],
           IF dt > 0 THEN <<Msg("ferias_integrais_com_dias", c.matricula)>> ELSE << >>,
           << >>, FALSE)

(* the 'parcial' branch with the maximum itself refused *)
FeriasParcialMaximoExclusivo(c, dt, politica) ==
    Efeito(c,
           IF dt >= politica.dias_maximos
           THEN <<Msg("ferias_parciais_acima_maximo", c.matricula)>> ELSE << >>,
           IF dt < politica.dias_minimos
           THEN <<Msg("ferias_parciais_abaixo_minimo", c.matricula)>> ELSE << >>,
           FALSE)

(* the 'parcial' branch *)
FeriasParcial(c, dt, politica) ==
    Efeito(c,
           IF dt > politica.dias_maximos
           THEN <<Msg("ferias_parciais_acima_maximo", c.matricula)>> ELSE << >>,
           IF dt < politica.dias_minimos
           THEN <<Msg("ferias_parciais_abaixo_minimo", c.matricula)>> ELSE << >>,
           FALSE)

(* one record of _validar_ferias *)
RegraFerias(d, c) ==
    IF ~c.em_ferias THEN Nada(c)
    ELSE IF c.sindicato \notin DOMAIN CONFIGURACAO_SINDICATOS
    THEN Efeito(c, << >>, <<Msg("ferias_sindicato_nao_encontrado", c.matricula)>>, FALSE)
    ELSE IF IsNone(c.dias_trabalhados)
    THEN Efeito(c, << >>, << >>, TRUE)      \* None > 0, None < dias_minimos raise
    ELSE LET politica == CONFIGURACAO_SINDICATOS[c.sindicato]
             dt == Val(c.dias_trabalhados)
             r == IF politica.tipo = "integral" THEN FeriasIntegral(c, dt)
                  ELSE FeriasParcial(c, dt, politica)
         IN  [r EXCEPT !.c = ElegibilidadeFerias(r.c, dt, politica)]

_validar_ferias(v) ==
    Laco([i \in DOMAIN v.d.colaboradores_ativos |->
            RegraFerias(v.d, v.d.colaboradores_ativos[i])], v, 1)

(* one record of _validar_desligamento_dia_15; a comparison with None      *)
(* raises inside the rule's try and is passed over                         *)
RegraDesligamento15(d, c) ==
    IF ~c.ativo /\ Truthy(c.data_desligamento)
       /\ DiaDe(c.data_desligamento) <= DIA_LIMITE_DESLIGAMENTO
    THEN Efeito(c,
                (IF c.elegivel
                 THEN <<Msg("desligado_ate_15_elegivel", c.matricula)>> ELSE << >>)
                \o (IF ~IsNone(c.dias_trabalhados) /\ Val(c.dias_trabalhados) > 0
                    THEN <<Msg("desligado_ate_15_com_dias", c.matricula)>> ELSE << >>),
                << >>, FALSE)
    ELSE Nada(c)

_validar_desligamento_dia_15(v) ==
    Laco([i \in DOMAIN v.d.colaboradores_ativos |->
            RegraDesligamento15(v.d, v.d.colaboradores_ativos[i])], v, 1)

(* one record of _validar_desligamento_dia_16_plus *)
RegraDesligamento16(d, c) ==
    IF ~c.ativo /\ Truthy(c.data_desligamento)
       /\ DiaDe(c.data_desligamento) > DIA_LIMITE_DESLIGAMENTO
    THEN Efeito(c,
                (IF ~c.elegivel
                 THEN <<Msg("desligado_apos_15_inelegivel", c.matricula)>> ELSE << >>)
                \o (IF ~IsNone(c.dias_trabalhados) /\ Val(c.dias_trabalhados) <= 0
                    THEN <<Msg("desligado_apos_15_sem_dias", c.matricula)>> ELSE << >>),
                << >>, FALSE)
    ELSE Nada(c)

_validar_desligamento_dia_16_plus(v) ==
    Laco([i \in DOMAIN v.d.colaboradores_ativos |->
            RegraDesligamento16(v.d, v.d.colaboradores_ativos[i])], v, 1)

(* data.month if hasattr(data, 'month') else mes_atual *)
MesDe(data, mes_atual) == IF HasDay(data) THEN data.mes ELSE mes_atual

(* one record of _validar_admitidos_mes; mes_atual is datetime.now().month *)
AdmitidoNoMes(c, mes_atual) ==
    IF Truthy(c.data_admissao) /\ MesDe(c.data_admissao, mes_atual) = mes_atual
       /\ ~IsNone(c.dias_trabalhados) /\ Val(c.dias_trabalhados) <= 0
    THEN Efeito(c, <<Msg("admitido_mes_sem_dias", c.matricula)>>, << >>, FALSE)
    ELSE Nada(c)

_validar_admitidos_mes(v, mes_atual) ==
    Laco([i \in DOMAIN v.d.colaboradores_ativos |->
            AdmitidoNoMes(v.d.colaboradores_ativos[i], mes_atual)], v, 1)

(* one record of _validar_admitidos_mes_anterior: the month compared is 4  *)
AdmitidoMesAnterior(c, mes_atual) ==
    IF Truthy(c.data_admissao) /\ MesDe(c.data_admissao, mes_atual) = 4
       /\ ~IsNone(c.dias_trabalhados) /\ Val(c.dias_trabalhados) <= 0
    THEN Efeito(c, <<Msg("admitido_abril_sem_dias", c.matricula)>>, << >>, FALSE)
    ELSE Nada(c)

_validar_admitidos_mes_anterior(v, mes_atual) ==
    Laco([i \in DOMAIN v.d.colaboradores_ativos |->
            AdmitidoMesAnterior(v.d.colaboradores_ativos[i], mes_atual)], v, 1)

(* total_dias_mes - dias_fim_semana - len(FERIADOS_MAIO_2025) = 31 - 8 - 5 *)
dias_uteis_esperados_default == 31 - 8 - 5

(* dias_uteis or dias_uteis_planilha or dias_uteis_esperados_default *)
DiasUteisEsperados(d, c) ==
    IF ~IsNone(c.dias_uteis) /\ Val(c.dias_uteis) # 0 THEN Val(c.dias_uteis)
    ELSE IF Get(d.dias_uteis_por_sindicato, c.sindicato) # 0
    THEN Get(d.dias_uteis_por_sindicato, c.sindicato)
    ELSE dias_uteis_esperados_default

(* one record of _validar_folha_ponto *)
RegraFolhaPonto(d, c) ==
    IF IsNone(c.dias_trabalhados)
    THEN Efeito(c, << >>, << >>, TRUE)      \* None > dias_uteis_esperados raises
    ELSE LET dt == Val(c.dias_trabalhados)
             esperados == DiasUteisEsperados(d, c)
             du == IF IsNone(c.dias_uteis) THEN 0 ELSE Val(c.dias_uteis)
             tem_dias_sindicato ==
                 c.sindicato \in DOMAIN d.dias_uteis_por_sindicato
                 \/ c.sindicato \in DOMAIN CONFIGURACAO_SINDICATOS
             dias_uteis_sindicato ==
                 IF c.sindicato \in DOMAIN d.dias_uteis_por_sindicato
                 THEN d.dias_uteis_por_sindicato[c.sindicato]
                 ELSE CONFIGURACAO_SINDICATOS[c.sindicato].dias_uteis_mes
             w1 == IF dt > esperados
                   THEN <<Msg("dias_acima_esperado", c.matricula)>> ELSE << >>
             w2 == IF tem_dias_sindicato /\ du # 0 /\ du # dias_uteis_sindicato
                   THEN <<Msg("dias_uteis_divergentes", c.matricula)>> ELSE << >>
             e3 == IF c.em_ferias /\ dt > 0
                   THEN <<Msg("ferias_com_dias_trabalhados", c.matricula)>> ELSE << >>
             w4 == IF HasDay(c.data_desligamento) /\ c.data_desligamento.dia <= 15 /\ dt > 0
                   THEN <<Msg("folha_desligado_ate_15_com_dias", c.matricula)>> ELSE << >>
             w6 == IF dt = esperados /\ c.em_ferias
                   THEN <<Msg("ferias_com_mes_completo", c.matricula)>> ELSE << >>
         IN  Efeito(c, e3, w1 \o w2 \o w4 \o w6, FALSE)

_validar_folha_ponto(v) ==
    Laco([i \in DOMAIN v.d.colaboradores_ativos |->
            RegraFolhaPonto(v.d, v.d.colaboradores_ativos[i])], v, 1)


(* the director rule recording no error *)
RegraDiretoresSemErro(d, c) ==
    IF AnyIn(cargos_diretores, Lower(c.cargo))
    THEN [ Efeito([c EXCEPT !.elegivel = FALSE,
                            !.dias_trabalhados = Some(0),
                            !.motivo_exclusao = "DIRETOR"],
                  << >>, << >>, FALSE)
           EXCEPT !.afastar = <<c.matricula>> ]
    ELSE Nada(c)

(* one record of _validar_diretores *)
RegraDiretores(d, c) ==
    IF AnyIn(cargos_diretores, Lower(c.cargo))
    THEN [ Efeito([c EXCEPT !.elegivel = FALSE,
                            !.dias_trabalhados = Some(0),
                            !.motivo_exclusao = "DIRETOR"],
                  IF c.elegivel THEN <<Msg("diretor_elegivel", c.matricula)>> ELSE << >>,
                  << >>, FALSE)
           EXCEPT !.afastar = <<c.matricula>> ]
    ELSE Nada(c)

_validar_diretores(v) ==
    Laco([i \in DOMAIN v.d.colaboradores_ativos |->
            RegraDiretores(v.d, v.d.colaboradores_ativos[i])], v, 1)

(* one record of _validar_calculo_pagamento:                               *)
(* abs(custo/total + desconto/total - 1.0) > 0.01, compared exactly        *)
RegraCalculoPagamento(d, c) ==
    IF c.elegivel /\ c.valor_total_beneficio > 0
       /\ Abs(c.custo_empresa + c.desconto_profissional - c.valor_total_beneficio) * 100
            > c.valor_total_beneficio
    THEN Efeito(c, <<Msg("percentuais_nao_somam", c.matricula)>>, << >>, FALSE)
    ELSE Nada(c)

_validar_calculo_pagamento(v) ==
    Laco([i \in DOMAIN v.d.colaboradores_ativos |->
            RegraCalculoPagamento(v.d, v.d.colaboradores_ativos[i])], v, 1)

SemRegraProporcional(c) ==
    c.sindicato \in DOMAIN CONFIGURACAO_SINDICATOS
    /\ ~CONFIGURACAO_SINDICATOS[c.sindicato].regras_proporcionais

(* one record of _validar_datas_quebradas.  Block 1 (admission): a         *)
(* comparison with None raises inside the block's try and ends the block;  *)
(* block 2 (termination): warnings and "Marca como não elegível"; block 3: *)
(* admission and termination in the same month                            *)
RegraDatasQuebradas(d, c) ==
    LET QuebradaAdmissao ==
            IF HasDay(c.data_admissao) /\ c.data_admissao.dia > 1
               /\ ~IsNone(c.dias_trabalhados)
            THEN (IF Val(c.dias_trabalhados) > 31 - c.data_admissao.dia + 1
                  THEN <<Msg("admissao_dias_acima_esperado", c.matricula)>> ELSE << >>)
                 \o (IF SemRegraProporcional(c)
                     THEN <<Msg("sem_regra_admissao_proporcional", c.matricula)>>
                     ELSE << >>)
            ELSE << >>
        QuebradaDesligamento ==
            IF ~HasDay(c.data_desligamento) \/ IsNone(c.dias_trabalhados) THEN << >>
            ELSE IF c.data_desligamento.dia <= 15
            THEN (IF Val(c.dias_trabalhados) > 0
                  THEN <<Msg("quebrada_desligado_ate_15_com_dias", c.matricula)>>
                  ELSE << >>)
            ELSE (IF Val(c.dias_trabalhados) > c.data_desligamento.dia
                  THEN <<Msg("desligamento_dias_acima_esperado", c.matricula)>>
                  ELSE << >>)
                 \o (IF SemRegraProporcional(c)
                     THEN <<Msg("sem_regra_desligamento_proporcional", c.matricula)>>
                     ELSE << >>)
        QuebradaMarcar ==
            IF HasDay(c.data_desligamento) /\ ~IsNone(c.dias_trabalhados)
               /\ c.data_desligamento.dia <= 15
            THEN [c EXCEPT !.elegivel = FALSE, !.dias_trabalhados = Some(0)]
            ELSE c
        QuebradaMesmoMes ==
            IF HasDay(c.data_admissao) /\ HasDay(c.data_desligamento)
               /\ c.data_admissao.mes = c.data_desligamento.mes
            THEN <<Msg("admissao_desligamento_mesmo_mes", c.matricula)>> ELSE << >>
    IN  Efeito(QuebradaMarcar, << >>,
               QuebradaAdmissao \o QuebradaDesligamento \o QuebradaMesmoMes,
               FALSE)

_validar_datas_quebradas(v) ==
    Laco([i \in DOMAIN v.d.colaboradores_ativos |->
            RegraDatasQuebradas(v.d, v.d.colaboradores_ativos[i])], v, 1)

(* the rule calls of AgenteValidador._executar_agente, in order, up to     *)
(* _validar_admitidos_mes; a rule that raises leaves the try block, so the  *)
(* rules after it do not run (Laco passes over a validation that has        *)
(* raised)                                                                 *)
RegrasAteAdmitidosMes(d, mes_atual) ==
    _validar_admitidos_mes(
     _validar_desligamento_dia_16_plus(
      _validar_desligamento_dia_15(
       _validar_ferias(
        _validar_totais(
         _validar_calculos(
          _validar_consistencia(
           _validar_matriculas(
            _validar_acordos_coletivos(
             _validar_exclusoes(ValidadorNovo(d)))))))))),
     mes_atual)

(* ... and on to _validar_folha_ponto *)
RegrasAteFolhaPonto(d, mes_atual) ==
    _validar_folha_ponto(
     _validar_admitidos_mes_anterior(RegrasAteAdmitidosMes(d, mes_atual), mes_atual))

(* all the rule calls of _executar_agente *)
Regras(d, mes_atual) ==
    _validar_datas_quebradas(
     _validar_calculo_pagamento(
      _validar_diretores(RegrasAteFolhaPonto(d, mes_atual))))

(* the dict of a pass whose exception is not taken for fatal *)
ResultadoValidadorSemFatal(v) ==
    [sucesso |-> Len(v.erros) + Len(v.erros_list) = 0,
     total_erros |-> Len(v.erros) + Len(v.erros_list),
     total_warnings |-> Len(v.warnings) + Len(v.warnings_list),
     registros_processados |-> Len(v.d.colaboradores_ativos),
     erro |-> v.excecao]

(* the dict AgenteValidador._executar_agente returns for the pass v *)
ResultadoValidador(v) ==
    IF v.excecao
    THEN [sucesso |-> FALSE, total_erros |-> 1, total_warnings |-> 0,
          registros_processados |-> 0, erro |-> TRUE]
    ELSE [sucesso |-> Len(v.erros) + Len(v.erros_list) = 0,
          total_erros |-> Len(v.erros) + Len(v.erros_list),
          total_warnings |-> Len(v.warnings) + Len(v.warnings_list),
          registros_processados |-> Len(v.d.colaboradores_ativos),
          erro |-> FALSE]

SemResultado ==
    [sucesso |-> FALSE, total_erros |-> 0, total_warnings |-> 0,
     registros_processados |-> 0, erro |-> FALSE]

(* AgenteCoordenador._executar_fase_validacao: the statistics it fills in  *)
(* on the dataset after the Validador returned                              *)
EstatisticasValidacao(d) ==
    [d EXCEPT !.total_colaboradores_processados = Len(d.colaboradores_ativos),
              !.colaboradores_validos = Len(Elegiveis(d)),
              !.total_colaboradores_excluidos = Cardinality(obter_matriculas_excluidas(d))]

-----------------------------------------------------------------------------
(* AgenteConsolidador (agents/consolidador.py): the dataset it hands to    *)
(* the Coordenador, over small spreadsheets                                *)

MatInt(n) == [tipo |-> "int", num |-> n, pad |-> FALSE]    \* the cell 1
MatStr(n) == [tipo |-> "str", num |-> n, pad |-> FALSE]    \* the cell "1"
MatPad(n) == [tipo |-> "str", num |-> n, pad |-> TRUE]     \* the cell " 1"

(* the text of a name cell; '' stands for a sheet without a name column *)
NomeLido == "Maria"

(* a row of the ATIVOS sheet as _ler_ativos reads it *)
_ler_ativos(matricula, linha) ==
    [ adicionar_colaborador_ativo(matricula, linha[1], linha[2], linha[3], linha[4])
      EXCEPT !.data_admissao = linha[5], !.nome = NomeLido ]

(* rows of the ATIVOS sheet, without the matricula:                        *)
(* <<cargo, situacao, sindicato, dias_trabalhados, data_admissao>>         *)
LinhasAtivos ==
    { <<CargoAnalista, SituacaoTrabalhando, "Paraná", None, SemData>>,
      <<CargoAnalista, SituacaoTrabalhando, "Paraná", Some(5), SemData>>,
      <<CargoAnalista, SituacaoTrabalhando, "Paraná", Some(22), Data(10, 4)>>,
      <<CargoAnalista, SituacaoTrabalhando, "Paraná", Some(30), Data(12, 5)>>,
      <<CargoAnalista, SituacaoTrabalhando, "SINDICATO_QUIMICOS", None, SemData>>,
      <<CargoAnalista, SituacaoTrabalhando, "SINDICATO_BANCARIOS", Some(31), SemData>>,
      <<CargoAnalista, SituacaoTrabalhando, "Rio de Janeiro", None, SemData>>,
      <<CargoAnalista, SituacaoTrabalhando, "Outro", None, SemData>>,
      <<CargoAnalista, SituacaoTrabalhando, "Rio Grande do Sul", Some(10), SemData>>,
      <<CargoAnalista, SituacaoTrabalhando, "", Some(0), SemData>>,
      <<CargoAnalista, SituacaoLicenca, "Paraná", None, SemData>>,
      <<CargoAnalista, SituacaoAuxilio, "Paraná", None, SemData>>,
      <<CargoDiretor, SituacaoTrabalhando, "Paraná", None, SemData>>,
      <<CargoPresidente, SituacaoTrabalhando, "Paraná", None, SemData>>,
      <<CargoEstagiario, SituacaoTrabalhando, "Paraná", None, SemData>>,
      <<CargoAprendiz, SituacaoTrabalhando, "Paraná", None, SemData>>,
      <<CargoCoordenadorAprendiz, SituacaoTrabalhando, "Paraná", None, SemData>>,
      <<CargoEstagiarioAprendiz, SituacaoTrabalhando, "Paraná", None, SemData>> }

(* rows that the passes of the Limpeza tell apart *)
LinhasLimpeza ==
    { <<cargo, SituacaoTrabalhando, "Paraná", None, SemData>> :
        cargo \in { CargoAnalista, CargoDiretor, CargoEstagiario, CargoAprendiz,
                    CargoCoordenadorAprendiz, CargoEstagiarioAprendiz } }
    \cup { <<CargoAnalista, SituacaoAuxilio, "Paraná", None, SemData>> }

Ferias(matricula, dias) == [matricula |-> matricula, dias_ferias |-> dias]
Desligado(matricula, data) == [matricula |-> matricula, data_demissao |-> data]

(* the side tables: FÉRIAS, DESLIGADOS and the four exclusion sheets       *)
Bases(ferias, desligados, exterior, estagio, aprendiz, afastados) ==
    [ colaboradores_ferias |-> ferias, colaboradores_desligados |-> desligados,
      colaboradores_exterior |-> exterior, colaboradores_estagio |-> estagio,
      colaboradores_aprendiz |-> aprendiz, colaboradores_afastados |-> afastados ]

SemBases == Bases(<< >>, << >>, << >>, << >>, << >>, << >>)

BasesLaterais ==
    { Bases(<< >>, << >>, << >>, << >>, << >>, << >>),
      Bases(<<Ferias(MatInt(1), 10)>>, << >>, << >>, << >>, << >>, << >>),
      Bases(<< >>, <<Desligado(MatInt(1), Data(10, 5))>>, << >>, << >>, << >>, << >>),
      Bases(<< >>, <<Desligado(MatInt(1), Data(20, 5))>>, << >>, << >>, << >>, << >>),
      Bases(<<Ferias(MatInt(1), 10)>>, <<Desligado(MatInt(1), Data(20, 5))>>,
            << >>, << >>, << >>, << >>),
      Bases(<< >>, <<Desligado(MatInt(1), Data(15, 5)), Desligado(MatInt(1), Data(16, 5))>>,
            << >>, << >>, << >>, << >>),
      Bases(<< >>, <<Desligado(MatPad(1), DataTexto), Desligado(MatInt(2), SemData)>>,
            << >>, << >>, << >>, << >>),
      Bases(<<Ferias(MatStr(2), 30)>>, <<Desligado(MatInt(2), Data(31, 5))>>,
            << >>, << >>, << >>, << >>),
      Bases(<< >>, << >>, <<MatStr(1)>>, << >>, << >>, << >>),
      Bases(<< >>, << >>, << >>, <<MatStr(2)>>, << >>, <<MatStr(2)>>),
      Bases(<< >>, <<Desligado(MatInt(1), Data(20, 5))>>, << >>, << >>,
            <<MatPad(1)>>, <<MatStr(2)>>) }

(* SINDICATO x VALOR (daily value, in cents) and the working-days sheet *)
config_sindicatos ==
    [ s \in {"Paraná", "SINDICATO_QUIMICOS", "SINDICATO_BANCARIOS", "Rio de Janeiro"} |->
        CASE s = "Paraná" -> 2500
          [] s = "SINDICATO_QUIMICOS" -> 2800
          [] s = "SINDICATO_BANCARIOS" -> 3200
          [] s = "Rio de Janeiro" -> 2600 ]

dias_uteis_por_sindicato ==
    [ s \in {"Paraná", "SINDICATO_QUIMICOS", "SINDICATO_BANCARIOS"} |->
        CASE s = "Paraná" -> 22
          [] s = "SINDICATO_QUIMICOS" -> 23
          [] s = "SINDICATO_BANCARIOS" -> 22 ]

(* _ler_todas_bases: dias_uteis missing on a row is filled from the        *)
(* working-days sheet                                                      *)
PreencherDiasUteis(c) ==
    IF (IsNone(c.dias_uteis) \/ Val(c.dias_uteis) <= 0)
       /\ Get(dias_uteis_por_sindicato, c.sindicato) # 0
    THEN [c EXCEPT !.dias_uteis = Some(Get(dias_uteis_por_sindicato, c.sindicato))]
    ELSE c

(* the DadosEntrada built from the sheets *)
Consolidar(ativos, bases) ==
    [ colaboradores_ativos |-> [i \in DOMAIN ativos |-> PreencherDiasUteis(ativos[i])],
      colaboradores_ferias |-> bases.colaboradores_ferias,
      colaboradores_desligados |-> bases.colaboradores_desligados,
      colaboradores_exterior |-> bases.colaboradores_exterior,
      colaboradores_estagio |-> bases.colaboradores_estagio,
      colaboradores_aprendiz |-> bases.colaboradores_aprendiz,
      colaboradores_afastados |-> bases.colaboradores_afastados,
      config_sindicatos |-> config_sindicatos,
      dias_uteis_por_sindicato |-> dias_uteis_por_sindicato,
      total_beneficios |-> 0, total_custo_empresa |-> 0,
      total_desconto_profissionais |-> 0,
      total_colaboradores_processados |-> 0, colaboradores_validos |-> 0,
      total_colaboradores_excluidos |-> 0 ]

(* ATIVOS sheets of 1..MaxAtivos rows; row i carries the matricula i *)
PlanilhasAtivos ==
    UNION { { [i \in 1..n |-> _ler_ativos(MatInt(i), f[i])] : f \in [1..n -> LinhasAtivos] }
            : n \in 1..MaxAtivos }

(* ATIVOS sheets whose matricula cells are ints, strs or padded strs, and  *)
(* may repeat                                                              *)
MatriculasLimpeza == { MatInt(1), MatInt(2), MatPad(1) }

PlanilhasLimpeza ==
    UNION { { [i \in 1..n |-> _ler_ativos(f[i][1], f[i][2])]
              : f \in [1..n -> MatriculasLimpeza \X LinhasLimpeza] }
            : n \in 1..MaxAtivos }

(* records as they are handed to the Validador's férias rule on its own:   *)
(* <<sindicato, em_ferias, dias_trabalhados, elegivel>>                    *)
LinhasFerias ==
    ({"Paraná", "SINDICATO_QUIMICOS", "SINDICATO_BANCARIOS", "SINDICATO_METALURGICOS", "Outro"}
        \X {TRUE} \X {None, Some(0), Some(5), Some(12), Some(30), Some(31)} \X {TRUE})
    \cup { <<"SINDICATO_QUIMICOS", FALSE, Some(5), TRUE>>,
           <<"SINDICATO_QUIMICOS", TRUE, Some(0), FALSE>>,
           <<"Paraná", TRUE, Some(12), FALSE>> }

(* a submitted record: its amounts are those of valor_vr x dias_trabalhados *)
Submetido(matricula, linha) ==
    LET c == adicionar_colaborador_ativo(matricula, CargoAnalista, SituacaoTrabalhando,
                                         linha[1], linha[3])
        valor_vr == DecimalDe(Get(config_sindicatos, linha[1]))
        total == IF linha[4] /\ ~IsNone(linha[3]) THEN valor_vr * Val(linha[3]) ELSE 0
    IN  [c EXCEPT !.em_ferias = linha[2], !.elegivel = linha[4],
                  !.valor_vr = valor_vr,
                  !.valor_total_beneficio = total,
                  !.custo_empresa = CustoEmpresa(total),
                  !.desconto_profissional = DescontoProfissional(total)]

PlanilhasFerias ==
    UNION { { [i \in 1..n |-> Submetido(MatInt(i), f[i])] : f \in [1..n -> LinhasFerias] }
            : n \in 1..MaxAtivos }

(* datetime.now().month, read by the admission rules *)
MesesAtuais == {4, 5, 6}

-----------------------------------------------------------------------------
(* AgenteCoordenador.executar_fluxo_completo: the pipeline                 *)

Inicio(d, f) ==
    /\ entrada = d
    /\ dados = d
    /\ fase = f
    /\ erros = << >>
    /\ warnings = << >>
    /\ resultado = SemResultado
    /\ execucoes = 0

(* the state after _executar_fase_consolidacao *)
Init ==
    \E ativos \in PlanilhasAtivos, bases \in BasesLaterais :
        Inicio(Consolidar(ativos, bases), "consolidado")

(* _executar_fase_limpeza *)
FaseLimpeza ==
    /\ fase = "consolidado"
    /\ dados' = Limpeza(dados)
    /\ fase' = "limpo"
    /\ execucoes' = execucoes + 1
    /\ UNCHANGED <<entrada, erros, warnings, resultado>>

(* _executar_fase_calculos *)
FaseCalculos ==
    /\ fase = "limpo"
    /\ dados' = _executar_fase_calculos(dados)
    /\ fase' = "calculado"
    /\ UNCHANGED <<entrada, erros, warnings, resultado, execucoes>>

(* _executar_fase_validacao: the Validador's rules mutate the dataset in   *)
(* place, so what they did before a rule raised stays done; the phase      *)
(* returns None, and the run stops, when the verdict is not `sucesso`      *)
FaseValidacao ==
    /\ fase = "calculado"
    /\ \E mes_atual \in MesesAtuais :
         LET v == Regras(dados, mes_atual)
         IN  /\ dados' = EstatisticasValidacao(v.d)
             /\ erros' = v.erros_list \o v.erros
             /\ warnings' = v.warnings_list \o v.warnings
             /\ resultado' = ResultadoValidador(v)
             /\ fase' = IF ResultadoValidador(v).sucesso THEN "validado" ELSE "falha_validacao"
    /\ UNCHANGED <<entrada, execucoes>>

(* the Gerador started whatever the verdict of the Validador was *)
FaseGeracaoSemVeredito ==
    /\ fase \in {"validado", "falha_validacao"}
    /\ fase' = "gerado"
    /\ UNCHANGED <<entrada, dados, erros, warnings, resultado, execucoes>>

(* _executar_fase_geracao: the Gerador writes the report and leaves the    *)
(* dataset as it is                                                        *)
FaseGeracao ==
    /\ fase = "validado"
    /\ fase' = "gerado"
    /\ UNCHANGED <<entrada, dados, erros, warnings, resultado, execucoes>>

Next == FaseLimpeza \/ FaseCalculos \/ FaseValidacao \/ FaseGeracao

Spec == Init /\ [][Next]_vars

-----------------------------------------------------------------------------
(* AgenteLimpeza.executar applied repeatedly to the same dataset           *)

InitLimpeza ==
    \E ativos \in PlanilhasLimpeza, bases \in BasesLaterais :
        Inicio(Consolidar(ativos, bases), "consolidado")

ExecutarLimpeza ==
    /\ execucoes < MaxExecucoesLimpeza
    /\ dados' = Limpeza(dados)
    /\ fase' = "limpo"
    /\ execucoes' = execucoes + 1
    /\ UNCHANGED <<entrada, erros, warnings, resultado>>

NextLimpeza == ExecutarLimpeza

SpecLimpeza == InitLimpeza /\ [][NextLimpeza]_vars

-----------------------------------------------------------------------------
(* AgenteLimpeza._excluir_por_cargo applied on its own to a dataset        *)

ExcluirPorCargo ==
    /\ fase = "consolidado"
    /\ dados' = _excluir_por_cargo(dados)
    /\ fase' = "cargo_excluido"
    /\ UNCHANGED <<entrada, erros, warnings, resultado, execucoes>>

NextCargo == ExcluirPorCargo

SpecCargo == InitLimpeza /\ [][NextCargo]_vars

-----------------------------------------------------------------------------
(* AgenteCalculador._calcular_beneficios applied on its own to a dataset   *)
(* whose dias_trabalhados cells are of any kind                            *)

(* None, ints, floats and strs *)
CelulasDias ==
    << None, Some(0), Some(5), Some(-3),
       Flutuante(79), Flutuante(-5),
       Texto(<< >>), Texto(<< " ", " " >>),
       Texto(<< "1", "2" >>), Texto(<< " ", "7", ".", "9", " " >>),
       Texto(<< "-", "3" >>), Texto(<< "a", "b", "c" >>),
       Texto(<< "1", ".", "2", ".", "3" >>) >>

(* records of every cell, sindicato and eligibility *)
PlanilhasBeneficios ==
    LET LinhasBeneficios ==  \* <<sindicato, elegivel>>
            { <<"Paraná", TRUE>>, <<"Paraná", FALSE>>, <<"Outro", TRUE>>,
              <<"Rio de Janeiro", TRUE>> }
        RegistroBeneficios(matricula, celula, linha) ==
            [ adicionar_colaborador_ativo(matricula, CargoAnalista, SituacaoTrabalhando,
                                          linha[1], CelulasDias[celula])
              EXCEPT !.elegivel = linha[2], !.nome = NomeLido ]
    IN  UNION { { [i \in 1..n |-> RegistroBeneficios(MatInt(i), f[i][1], f[i][2])]
                  : f \in [1..n -> (DOMAIN CelulasDias) \X LinhasBeneficios] }
                : n \in 1..MaxAtivos }

InitBeneficios ==
    \E ativos \in PlanilhasBeneficios :
        Inicio(Consolidar(ativos, SemBases), "entregue")

CalcularBeneficios ==
    /\ fase = "entregue"
    /\ dados' = _calcular_beneficios(dados)
    /\ fase' = "beneficios_calculados"
    /\ UNCHANGED <<entrada, erros, warnings, resultado, execucoes>>

NextBeneficios == CalcularBeneficios

SpecBeneficios == InitBeneficios /\ [][NextBeneficios]_vars

-----------------------------------------------------------------------------
(* AgenteValidador._validar_ferias applied to a submitted dataset          *)

InitFerias ==
    \E ativos \in PlanilhasFerias :
        Inicio(Consolidar(ativos, Bases(<< >>, << >>, << >>, << >>, << >>, << >>)),
               "submetido")

ValidarFerias ==
    /\ fase = "submetido"
    /\ LET v == _validar_ferias(ValidadorNovo(dados))
       IN  /\ dados' = v.d
           /\ erros' = v.erros
           /\ warnings' = v.warnings
           /\ fase' = IF v.excecao THEN "ferias_excecao" ELSE "ferias_validadas"
    /\ UNCHANGED <<entrada, resultado, execucoes>>

NextFerias == ValidarFerias

SpecFerias == InitFerias /\ [][NextFerias]_vars

-----------------------------------------------------------------------------
(* AgenteValidador.executar applied, by a fresh Validador, to a dataset    *)
(* handed to it directly: as the Consolidador built it, as submitted with   *)
(* amounts already on its records, or after the Calculador                  *)

(* matricula cells: 1, "1", " 1", 2, None, "" and "  "; name cells: no     *)
(* name, a name; lines <<sindicato, dias_trabalhados>>                     *)
PlanilhasValidador ==
    LET MatriculasValidador ==
            { MatInt(1), MatStr(1), MatPad(1), MatInt(2), SemMatricula,
              MatStr(0), MatPad(0) }
        NomesValidador == { "", NomeLido }
        LinhasValidador ==
            { <<"Paraná", Some(5)>>, <<"Paraná", None>>, <<"Outro", Some(5)>> }
        RegistroValidador(matricula, nome, linha) ==
            [ adicionar_colaborador_ativo(matricula, CargoAnalista, SituacaoTrabalhando,
                                          linha[1], linha[2])
              EXCEPT !.nome = nome ]
    IN  UNION { { [i \in 1..n |-> RegistroValidador(f[i][1], f[i][2], f[i][3])]
                  : f \in [1..n -> MatriculasValidador \X NomesValidador
                                     \X LinhasValidador] }
                : n \in 1..MaxAtivos }

InitValidador ==
    \E ativos \in PlanilhasValidador \cup PlanilhasFerias, calculado \in BOOLEAN :
        Inicio(IF calculado THEN Calculador(Consolidar(ativos, SemBases))
               ELSE Consolidar(ativos, SemBases),
               "entregue")

ExecutarValidador ==
    /\ fase = "entregue"
    /\ \E mes_atual \in MesesAtuais :
         LET v == Regras(dados, mes_atual)
         IN  /\ dados' = v.d
             /\ erros' = v.erros_list \o v.erros
             /\ warnings' = v.warnings_list \o v.warnings
             /\ resultado' = ResultadoValidador(v)
    /\ fase' = "validador_concluido"
    /\ UNCHANGED <<entrada, execucoes>>

NextValidador == ExecutarValidador

SpecValidador == InitValidador /\ [][NextValidador]_vars

-----------------------------------------------------------------------------
(* Properties *)

Ativos == dados.colaboradores_ativos

AposLimpeza == execucoes >= 1

(* the entry of DESLIGADOS the Limpeza used for the record: the first one  *)
(* with its matricula                                                      *)
DemissaoDe(c) ==
    dados.colaboradores_desligados[Busca(dados.colaboradores_desligados, c.matricula)].data_demissao

AposCalculador == fase \in {"calculado", "validado", "falha_validacao", "gerado"}

AposValidador == fase \in {"validado", "falha_validacao", "gerado"}

(* 0.01 currency units *)
Tolerancia == DecimalDe(1)

(* C2: from the end of the Calculador on (after the Calculador and after   *)
(* the Validador) every eligible record of the active list has             *)
(* |custo_empresa + desconto_profissional - valor_total_beneficio| <= 0.01 *)
C2_CustoMaisDesconto ==
    AposCalculador =>
        \A i \in DOMAIN Ativos :
            Ativos[i].elegivel =>
                Abs(Ativos[i].custo_empresa + Ativos[i].desconto_profissional
                    - Ativos[i].valor_total_beneficio) <= Tolerancia

(* C2 witness: after the Validador an eligible record carries a positive   *)
(* total split into a positive company cost and a positive deduction       *)
C2_Witness ==
    /\ AposValidador
    /\ \E i \in DOMAIN Ativos :
          /\ Ativos[i].elegivel
          /\ Ativos[i].valor_total_beneficio > 0
          /\ Ativos[i].custo_empresa > 0
          /\ Ativos[i].desconto_profissional > 0

(* C3: from the end of the Calculador on every eligible record of the      *)
(* active list has |valor_total_beneficio - valor_vr * dias_trabalhados|   *)
(* <= 0.01 over the values stored on it; a record the Calculador skipped   *)
(* (its dias_trabalhados may still be None) has valor_vr 0 and total 0     *)
C3_TotalPorDias ==
    AposCalculador =>
        \A i \in DOMAIN Ativos :
            Ativos[i].elegivel =>
                IF IsNone(Ativos[i].dias_trabalhados)
                THEN Ativos[i].valor_vr = 0 /\ Ativos[i].valor_total_beneficio = 0
                ELSE Abs(Ativos[i].valor_total_beneficio
                         - Ativos[i].valor_vr * Val(Ativos[i].dias_trabalhados)) <= Tolerancia

(* C3 witness: an eligible record with 5 informed days of a 22-day month,  *)
(* a daily value of 25.00 and 125.00 in total                              *)
C3_Witness ==
    /\ AposCalculador
    /\ \E i \in DOMAIN Ativos :
          /\ Ativos[i].elegivel
          /\ Ativos[i].dias_trabalhados = Some(5)
          /\ Ativos[i].dias_uteis = Some(22)
          /\ Ativos[i].valor_vr = DecimalDe(2500)
          /\ Ativos[i].valor_total_beneficio = DecimalDe(12500)


Submetidos == entrada.colaboradores_ativos

(* the record is on férias and its sindicato has the given férias policy   *)
FeriasDoTipo(c, tipo) ==
    /\ c.em_ferias
    /\ c.sindicato \in DOMAIN CONFIGURACAO_SINDICATOS
    /\ CONFIGURACAO_SINDICATOS[c.sindicato].tipo = tipo

(* the messages of a list that name the matricula *)
Sobre(lista, matricula) ==
    Filtrar(lista, [i \in DOMAIN lista |-> lista[i].matricula = matricula])

(* C4: after the férias rule of the Validador a record on férias under an  *)
(* 'integral' policy has dias_trabalhados = 0, elegivel = FALSE and        *)
(* valor_total_beneficio, custo_empresa and desconto_profissional all 0,   *)
(* for every submitted dias_trabalhados; when that was > 0 an error is     *)
(* recorded as well.                                                       *)
C4_FeriasIntegrais ==
    fase = "ferias_validadas" =>
        \A i \in DOMAIN Ativos :
            FeriasDoTipo(Submetidos[i], "integral") =>
                /\ Ativos[i].dias_trabalhados = Some(0)
                /\ ~Ativos[i].elegivel
                /\ Ativos[i].valor_total_beneficio = 0
                /\ Ativos[i].custo_empresa = 0
                /\ Ativos[i].desconto_profissional = 0
                /\ Val(Submetidos[i].dias_trabalhados) > 0
                      => Sobre(erros, Ativos[i].matricula) # << >>

(* C5: for a record on férias under a 'parcial' policy with bounds         *)
(* [dias_minimos, dias_maximos] the férias rule records no error when      *)
(* dias_trabalhados is within the bounds, an error when it is above the    *)
(* maximum, and a warning and no error when it is below the minimum.       *)
C5_FeriasParciais ==
    fase = "ferias_validadas" =>
        \A i \in DOMAIN Ativos :
            FeriasDoTipo(Submetidos[i], "parcial") =>
                LET politica == CONFIGURACAO_SINDICATOS[Submetidos[i].sindicato]
                    dt == Val(Submetidos[i].dias_trabalhados)
                    es == Sobre(erros, Submetidos[i].matricula)
                    ws == Sobre(warnings, Submetidos[i].matricula)
                IN  /\ (politica.dias_minimos <= dt /\ dt <= politica.dias_maximos)
                          => es = << >>
                    /\ dt > politica.dias_maximos => es # << >>
                    /\ dt < politica.dias_minimos => (ws # << >> /\ es = << >>)

(* C5 witness: the rule has run over a record with 31 days under bounds    *)
(* [10, 30], which got an error, and a record with 5 days under bounds     *)
(* [15, 30], which got a warning and no error                              *)
C5_Witness ==
    /\ fase = "ferias_validadas"
    /\ \E i, j \in DOMAIN Ativos :
          /\ FeriasDoTipo(Submetidos[i], "parcial")
          /\ Submetidos[i].sindicato = "Paraná"
          /\ Submetidos[i].dias_trabalhados = Some(31)
          /\ Sobre(erros, Submetidos[i].matricula) # << >>
          /\ FeriasDoTipo(Submetidos[j], "parcial")
          /\ Submetidos[j].sindicato = "SINDICATO_METALURGICOS"
          /\ Submetidos[j].dias_trabalhados = Some(5)
          /\ Sobre(warnings, Submetidos[j].matricula) # << >>
          /\ Sobre(erros, Submetidos[j].matricula) = << >>


(* C6: the Limpeza is idempotent: applied to a dataset that is the output  *)
(* of a Limpeza run it removes no record of the active list, changes no    *)
(* field of a record and changes no exclusion list.                        *)
C6_LimpezaIdempotente ==
    [][ (ExecutarLimpeza /\ AposLimpeza) => dados' = dados ]_vars

(* C6 witness: the Limpeza has run twice over a dataset from which its     *)
(* first run removed a record, put a matricula on an exclusion list and    *)
(* marked a record of DESLIGADOS and one of FÉRIAS                         *)
C6_Witness ==
    /\ execucoes = 2
    /\ Ativos # << >>
    /\ Len(Ativos) < Len(Submetidos)
    /\ dados.colaboradores_estagio # entrada.colaboradores_estagio
    /\ \E i \in DOMAIN Ativos : ~Ativos[i].ativo
    /\ \E i \in DOMAIN Ativos : Ativos[i].em_ferias

ListasExclusao ==
    { dados.colaboradores_exterior, dados.colaboradores_estagio,
      dados.colaboradores_aprendiz, dados.colaboradores_afastados }

(* C7: at the end of the Limpeza no record of the active list has a        *)
(* matricula (compared as str, the way the lists hold it) that is on one   *)
(* of the four exclusion lists (exterior, estágio, aprendiz, afastados),   *)
(* the matriculas the Limpeza itself put there included.                   *)
C7_SemExcluidos ==
    AposLimpeza =>
        \A i \in DOMAIN Ativos : \A lista \in ListasExclusao : \A k \in DOMAIN lista :
            Str(Ativos[i].matricula) # Str(lista[k])

(* C7 witness: the pass by cargo put an intern's matricula, which was on   *)
(* no list, on the estágio list, and the analyst submitted with the same   *)
(* matricula is no longer on the active list                               *)
C7_Witness ==
    /\ AposLimpeza
    /\ \A k \in DOMAIN Ativos : Ativos[k].cargo # CargoAnalista
    /\ \E i, j \in DOMAIN Submetidos :
          /\ i # j
          /\ Str(Submetidos[i].matricula) = Str(Submetidos[j].matricula)
          /\ Submetidos[i].cargo = CargoEstagiario
          /\ Submetidos[j].cargo = CargoAnalista
          /\ InList(Submetidos[i].matricula, dados.colaboradores_estagio)
          /\ ~InList(Submetidos[i].matricula, entrada.colaboradores_estagio)
          /\ ~InList(Str(Submetidos[i].matricula), entrada.colaboradores_estagio)


(* C8 (as stated): once the Validador has run, dados.total_beneficios      *)
(* equals the sum of valor_total_beneficio over the eligible records of    *)
(* the active list, within 0.01.                                           *)
C8_TotalBeneficios ==
    AposValidador =>
        Abs(dados.total_beneficios
            - Soma(Campo(Elegiveis(dados), "valor_total_beneficio"))) <= Tolerancia

EhEstagiario(c) == Contains(Lower(c.cargo), KwEstagiario)
EhAprendiz(c) == Contains(Lower(c.cargo), KwAprendiz)
EhDiretoria(c) ==
    Contains(Lower(c.cargo), KwDiretor) \/ Contains(Lower(c.cargo), KwCoordenador)

(* the submitted record is no longer on the active list *)
Removido(e) ==
    \A k \in DOMAIN Ativos :
        ~(Ativos[k].matricula = e.matricula /\ Ativos[k].cargo = e.cargo)

Desligado20Com25(c) ==
    /\ Busca(dados.colaboradores_desligados, c.matricula) # 0
    /\ HasDay(DemissaoDe(c)) /\ DemissaoDe(c).dia = 20
    /\ Get(dados.config_sindicatos, c.sindicato) = 2500
    /\ Get(dados.dias_uteis_por_sindicato, c.sindicato) > 0

Valores475(c) ==
    /\ c.dias_trabalhados = Some(19)
    /\ c.valor_total_beneficio = DecimalDe(47500)
    /\ c.custo_empresa = DecimalDe(38000)
    /\ c.desconto_profissional = DecimalDe(9500)

DaRegra(lista, regra) ==
    Filtrar(lista, [i \in DOMAIN lista |-> lista[i].regra = regra])

(* the record names a sindicato that has no daily value configured *)
SemValorConfigurado(c) ==
    c.sindicato # "" /\ c.sindicato \notin DOMAIN dados.config_sindicatos

ComValorConfigurado ==
    Filtrar(Ativos, [i \in DOMAIN Ativos |-> ~SemValorConfigurado(Ativos[i])])

(* C11: when a sindicato named by a record of the active list has no       *)
(* daily value configured, the Calculador leaves every record of that      *)
(* sindicato with valor_vr 0 and valor_total_beneficio 0, so that the      *)
(* aggregate total is the sum over the other records, and the pass of the  *)
(* Validador records exactly one 'Sindicatos sem valor' error, however     *)
(* many records or sindicatos are affected.                                *)
C11_SindicatoSemValor ==
    /\ AposCalculador =>
          \A i \in DOMAIN Ativos :
              SemValorConfigurado(Ativos[i]) =>
                  (Ativos[i].valor_vr = 0 /\ Ativos[i].valor_total_beneficio = 0)
    /\ fase = "calculado" =>
          dados.total_beneficios = Soma(Campo(ComValorConfigurado, "valor_total_beneficio"))
    /\ AposValidador =>
          ((\E i \in DOMAIN Ativos : SemValorConfigurado(Ativos[i]))
              => Len(DaRegra(erros, "sindicatos_sem_valor")) = 1)

(* C11 witness: the Validador has run over two records of two different    *)
(* sindicatos without value and a record of a sindicato with value would   *)
(* have been computed; one 'Sindicatos sem valor' error is recorded        *)
C11_Witness ==
    /\ AposValidador
    /\ Len(Ativos) = 2
    /\ SemValorConfigurado(Ativos[1]) /\ SemValorConfigurado(Ativos[2])
    /\ Ativos[1].sindicato # Ativos[2].sindicato
    /\ ~IsNone(Ativos[1].dias_trabalhados) /\ Val(Ativos[1].dias_trabalhados) > 0
    /\ Ativos[1].valor_total_beneficio = 0
    /\ Len(DaRegra(erros, "sindicatos_sem_valor")) = 1

(* the stage boundaries a run may cross, in the order of                   *)
(* executar_fluxo_completo                                                 *)
PassoDoFluxo ==
    \/ fase = "consolidado" /\ fase' = "limpo"
    \/ fase = "limpo" /\ fase' = "calculado"
    \/ fase = "calculado" /\ fase' = "validado"
          /\ resultado'.sucesso /\ resultado'.total_erros = 0
    \/ fase = "calculado" /\ fase' = "falha_validacao"
          /\ ~resultado'.sucesso /\ resultado'.total_erros >= 1
    \/ fase = "validado" /\ fase' = "gerado"

C13_SucessoSemErros ==
    fase = "validador_concluido" => (resultado.sucesso <=> erros = << >>)

(* C14 (as stated): whatever a rule did with a record, the Validador       *)
(* returns its tallied result, with registros_processados equal to the     *)
(* number of records of the active list, and not the fatal-failure result. *)
C14_ExcecaoContida ==
    AposValidador =>
        (~resultado.erro /\ resultado.registros_processados = Len(Ativos))

MantidosPorCargo ==
    Filtrar(Submetidos,
            [i \in DOMAIN Submetidos |->
                EhDiretoria(Submetidos[i])
                \/ ~(EhEstagiario(Submetidos[i]) \/ EhAprendiz(Submetidos[i]))])

Computado(e) == Calculavel(entrada, e)

ValorDiario(e) == DecimalDe(Get(entrada.config_sindicatos, e.sindicato))
DiasUteisDe(e) == Get(entrada.dias_uteis_por_sindicato, e.sindicato)

(* C16: for every eligible record whose sindicato has a daily value v and  *)
(* a positive working-day count n and whose dias_trabalhados is given as   *)
(* an int k >= 0, _calcular_beneficios sets valor_vr = v and               *)
(* dias_uteis = n and leaves dias_trabalhados = k.                         *)
C16_ValorDiasUteisDias ==
    fase = "beneficios_calculados" =>
        \A i \in DOMAIN Submetidos :
            LET e == Submetidos[i]
            IN  (Computado(e) /\ Len(e.dias_trabalhados) = 1 /\ Val(e.dias_trabalhados) >= 0)
                => /\ Ativos[i].valor_vr = ValorDiario(e)
                   /\ Ativos[i].dias_uteis = Some(DiasUteisDe(e))
                   /\ Ativos[i].dias_trabalhados = e.dias_trabalhados

(* C16 witness: a record with 0 days and one with 5 days of a sindicato    *)
(* with 25.00 a day and 22 working days have been computed                 *)
C16_Witness ==
    /\ fase = "beneficios_calculados"
    /\ Len(Ativos) = 2
    /\ Computado(Submetidos[1]) /\ Submetidos[1].dias_trabalhados = Some(0)
    /\ Computado(Submetidos[2]) /\ Submetidos[2].dias_trabalhados = Some(5)
    /\ Ativos[1].dias_trabalhados = Some(0) /\ Ativos[1].valor_vr = DecimalDe(2500)
    /\ Ativos[2].dias_trabalhados = Some(5) /\ Ativos[2].dias_uteis = Some(22)
    /\ Ativos[2].valor_total_beneficio = DecimalDe(12500)

(* C17: the matricula rule records an error for an absent or blank       *)
(* matricula exactly when some active record has one, and a duplicate      *)
(* error exactly when two active records have the same matricula (as text, *)
(* blanks around it apart); with every matricula non-blank and all         *)
(* distinct it records no error (and returns True)                         *)
SemMatriculaValida(c) ==
    MatriculaAusente(c.matricula) \/ MatriculaEmBranco(c.matricula)

MatriculaRepetida ==
    \E i, j \in DOMAIN Ativos :
        /\ i # j
        /\ ~MatriculaAusente(Ativos[i].matricula)
        /\ ~MatriculaAusente(Ativos[j].matricula)
        /\ MesmaMatricula(Ativos[i].matricula, Ativos[j].matricula)

C18_NomeAusenteAvisa ==
    (fase = "validador_concluido" /\ ~resultado.erro) =>
        \A i \in DOMAIN Ativos :
            Ativos[i].nome = "" =>
                /\ \E k \in DOMAIN warnings :
                       warnings[k] = Msg("opcional_nome", Ativos[i].matricula)
                /\ DaRegra(erros, "obrigatorio_nome") = << >>

(* C19: at the end of the Limpeza every record of the active list whose    *)
(* cargo contains 'diretor' or 'coordenador' has elegivel = FALSE,          *)
(* dias_trabalhados = 0 and motivo_exclusao 'CARGO_DIRETORIA/COORDENACAO',  *)
(* whatever the férias and desligamento steps did                          *)
C19_DiretoriaAoFimDaLimpeza ==
    (fase = "limpo" /\ execucoes = 1) =>
        \A i \in DOMAIN Ativos :
            EhDiretoria(Ativos[i]) =>
                /\ ~Ativos[i].elegivel
                /\ Ativos[i].dias_trabalhados = Some(0)
                /\ Ativos[i].motivo_exclusao = "CARGO_DIRETORIA/COORDENACAO"

(* C20: for a computed record, an absent or blank dias_trabalhados is     *)
(* resolved to the sindicato's working days, a number to its integer part,  *)
(* and a cell whose parse fails, or a negative result, to 0 (zero total)    *)
C20_FalhaDeParseZero ==
    fase = "beneficios_calculados" =>
        \A i \in DOMAIN Ativos :
            LET e == entrada.colaboradores_ativos[i]
                dt_raw == e.dias_trabalhados
                texto == Len(dt_raw) = 2 /\ dt_raw[1] = "str"
            IN  Computado(e) =>
                  /\ DiasEmBranco(dt_raw) =>
                        Ativos[i].dias_trabalhados = Some(DiasUteisDe(e))
                  /\ (texto /\ ~DiasEmBranco(dt_raw) /\ ~ParseFloat(dt_raw[2]).ok) =>
                        /\ Ativos[i].dias_trabalhados = Some(0)
                        /\ Ativos[i].valor_total_beneficio = 0
                  /\ (texto /\ ParseFloat(dt_raw[2]).ok) =>
                        Ativos[i].dias_trabalhados =
                            Some(IF ParseFloat(dt_raw[2]).sinal < 0 THEN 0
                                 ELSE ParseFloat(dt_raw[2]).inteiro)

(* C21: every record the Calculador computed has custo_empresa and        *)
(* desconto_profissional equal to its total times the split percentages    *)
(* of its sindicato's entry of CONFIGURACAO_SINDICATOS, 0.80 / 0.20 when    *)
(* the sindicato has no entry                                              *)
C21_PercentuaisDoSindicato ==
    fase = "calculado" =>
        \A i \in DOMAIN Ativos :
            LET c == Ativos[i]
                pe == IF c.sindicato \in DOMAIN CONFIGURACAO_SINDICATOS
                      THEN CONFIGURACAO_SINDICATOS[c.sindicato].percentual_empresa
                      ELSE 80
                pp == IF c.sindicato \in DOMAIN CONFIGURACAO_SINDICATOS
                      THEN CONFIGURACAO_SINDICATOS[c.sindicato].percentual_profissional
                      ELSE 20
            IN  Calculavel(dados, c) =>
                  /\ c.custo_empresa = Percentual(c.valor_total_beneficio, pe)
                  /\ c.desconto_profissional = Percentual(c.valor_total_beneficio, pp)

(* C22: at the end of the Calculador, run after the Limpeza, every record  *)
(* of the active list found in DESLIGADOS with a date of day d has, for     *)
(* d <= 15, elegivel = FALSE and dias_trabalhados = 0 and, for d > 15,      *)
(* elegivel = TRUE and dias_trabalhados = d - 1                            *)
C22_DesligamentoPreservado ==
    fase = "calculado" =>
        \A i \in DOMAIN Ativos :
            (/\ Busca(dados.colaboradores_desligados, Ativos[i].matricula) # 0
             /\ HasDay(DemissaoDe(Ativos[i]))) =>
                IF DemissaoDe(Ativos[i]).dia <= DIA_LIMITE_DESLIGAMENTO
                THEN ~Ativos[i].elegivel /\ Ativos[i].dias_trabalhados = Some(0)
                ELSE /\ Ativos[i].elegivel
                     /\ Ativos[i].dias_trabalhados = Some(DemissaoDe(Ativos[i]).dia - 1)

(* C23: at the end of the Limpeza every record of the active list found   *)
(* in DESLIGADOS with a date that has no day (a value without .day, or no   *)
(* date at all) has ativo = FALSE, elegivel = FALSE and dias_trabalhados 0  *)
C23_DataSemDia ==
    (fase = "limpo" /\ execucoes = 1) =>
        \A i \in DOMAIN Ativos :
            (/\ Busca(dados.colaboradores_desligados, Ativos[i].matricula) # 0
             /\ ~HasDay(DemissaoDe(Ativos[i]))) =>
                /\ ~Ativos[i].ativo
                /\ ~Ativos[i].elegivel
                /\ Ativos[i].dias_trabalhados = Some(0)

(* the dataset the Validador of the pipeline received *)
Recebido == _executar_fase_calculos(Limpeza(entrada))

EhDiretor(c) == AnyIn(cargos_diretores, Lower(c.cargo))

(* the pass that led to this state ran with the month mes_atual *)
PassoCom(mes_atual) ==
    /\ dados = EstatisticasValidacao(Regras(Recebido, mes_atual).d)
    /\ erros = Regras(Recebido, mes_atual).erros_list \o Regras(Recebido, mes_atual).erros

(* C24: at the end of a Validador pass that no exception ended, every      *)
(* record of the active list whose cargo contains a keyword of             *)
(* cargos_diretores has elegivel = FALSE, dias_trabalhados = 0 and a        *)
(* motivo_exclusao, and the pass recorded one 'Diretor deveria ser          *)
(* inelegível' error for each such record that was eligible when            *)
(* _validar_diretores came to it, and none for any other record            *)
C24_DiretoresInelegiveis ==
    (fase \in {"validado", "falha_validacao"} /\ ~resultado.erro) =>
        /\ \A i \in DOMAIN Ativos :
              EhDiretor(Ativos[i]) =>
                  /\ ~Ativos[i].elegivel
                  /\ Ativos[i].dias_trabalhados = Some(0)
                  /\ Ativos[i].motivo_exclusao # ""
        /\ \A mes_atual \in MesesAtuais :
              PassoCom(mes_atual) =>
                  LET antes == RegrasAteFolhaPonto(Recebido, mes_atual).d.colaboradores_ativos
                  IN  /\ Len(DaRegra(erros, "diretor_elegivel"))
                           = Cardinality({i \in DOMAIN antes :
                                            EhDiretor(antes[i]) /\ antes[i].elegivel})
                      /\ \A i \in DOMAIN antes :
                            (EhDiretor(antes[i]) /\ antes[i].elegivel) =>
                                \E k \in DOMAIN erros :
                                    erros[k] = Msg("diretor_elegivel", antes[i].matricula)

C24_Witness ==
    /\ fase = "falha_validacao" /\ ~resultado.erro
    /\ \E i \in DOMAIN Ativos :
          /\ Contains(Lower(Ativos[i].cargo), KwCoordenador)
          /\ ~Ativos[i].elegivel
          /\ Ativos[i].dias_trabalhados = Some(0)
          /\ Ativos[i].motivo_exclusao = "DIRETOR"
          /\ Msg("diretor_elegivel", Ativos[i].matricula) \in Range(erros)

(* C25: a Validador pass that an exception ended returns sucesso = FALSE, *)
(* total_erros = 1 and registros_processados = 0, and the run stops at the  *)
(* failed validation: the Gerador does not run after it                    *)
C25_ExcecaoFatal ==
    resultado.erro =>
        /\ ~resultado.sucesso
        /\ resultado.total_erros = 1
        /\ resultado.registros_processados = 0
        /\ fase = "falha_validacao"

C25_Witness ==
    /\ fase = "falha_validacao"
    /\ resultado.erro
    /\ Len(Ativos) = 2
    /\ resultado.registros_processados = 0

(* C26: a Validador pass that no exception ended, run in month m,         *)
(* recorded a prior-month-admission error for exactly the records of the    *)
(* active list whose admission date is of month m - 1 and whose             *)
(* dias_trabalhados was <= 0 when the rule came to them                     *)
C26_AdmitidosMesAnterior ==
    (fase \in {"validado", "falha_validacao"} /\ ~resultado.erro) =>
        \A mes_atual \in MesesAtuais :
            PassoCom(mes_atual) =>
                LET antes == RegrasAteAdmitidosMes(Recebido, mes_atual).d.colaboradores_ativos
                IN  \A i \in DOMAIN antes :
                        (\E k \in DOMAIN erros :
                            erros[k] = Msg("admitido_abril_sem_dias", antes[i].matricula))
                        <=> (/\ HasDay(antes[i].data_admissao)
                             /\ antes[i].data_admissao.mes = mes_atual - 1
                             /\ ~IsNone(antes[i].dias_trabalhados)
                             /\ Val(antes[i].dias_trabalhados) <= 0)

(* the records as _validar_ferias of the pipeline's Validador finds them *)
AntesDasFerias ==
    _validar_totais(
     _validar_calculos(
      _validar_consistencia(
       _validar_matriculas(
        _validar_acordos_coletivos(
         _validar_exclusoes(ValidadorNovo(Recebido))))))).d.colaboradores_ativos

SemBeneficio(c) ==
    c.valor_total_beneficio = 0 /\ c.custo_empresa = 0 /\ c.desconto_profissional = 0

C28_AritmeticaDeAcordo ==
    AposValidador =>
        /\ DaRegra(erros, "calculo_incorreto") = << >>
        /\ DaRegra(erros, "soma_percentuais") = << >>
        /\ DaRegra(erros, "percentuais_nao_somam") = << >>

C28_Witness ==
    /\ AposValidador
    /\ ~resultado.erro
    /\ \E i \in DOMAIN Ativos :
          /\ Ativos[i].elegivel
          /\ Ativos[i].dias_trabalhados = Some(19)
          /\ Ativos[i].valor_total_beneficio = Ativos[i].valor_vr * 19
          /\ Ativos[i].valor_total_beneficio > 0
    /\ DaRegra(erros, "calculo_incorreto") = << >>
    /\ DaRegra(erros, "percentuais_nao_somam") = << >>

(* C29: after the Calculador, after the Validador and after the Gerador no *)
(* record of the active list has a matricula that is on one of the four     *)
(* exclusion lists                                                         *)
C29_ExclusaoPreservada ==
    AposCalculador =>
        \A i \in DOMAIN Ativos : \A lista \in ListasExclusao : \A k \in DOMAIN lista :
            Str(Ativos[i].matricula) # Str(lista[k])

(* the errors a rule records about a record's férias or days worked *)
RegrasDeFeriasEDias ==
    { "ferias_parciais_acima_maximo", "ferias_integrais_com_dias",
      "ferias_com_dias_trabalhados", "calculo_incorreto", "soma_percentuais",
      "percentuais_nao_somam" }

(* a record on férias under a 'parcial' policy, its dias_trabalhados within *)
(* the policy's bounds and its amounts those of its dias_trabalhados       *)
FeriasParciaisCoerentes(e) ==
    /\ FeriasDoTipo(e, "parcial")
    /\ ~IsNone(e.dias_trabalhados)
    /\ Val(e.dias_trabalhados) >= CONFIGURACAO_SINDICATOS[e.sindicato].dias_minimos
    /\ Val(e.dias_trabalhados) <= CONFIGURACAO_SINDICATOS[e.sindicato].dias_maximos
    /\ e.valor_vr > 0
    /\ e.valor_total_beneficio = e.valor_vr * Val(e.dias_trabalhados)
    /\ e.custo_empresa + e.desconto_profissional = e.valor_total_beneficio

(* C30: a Validador pass that no exception ended records no error about    *)
(* the férias or the days worked of a record on férias under a 'parcial'    *)
(* policy whose dias_trabalhados lies within the policy's bounds and whose  *)
(* amounts are those of its dias_trabalhados                               *)
C30_FeriasParciaisSemErro ==
    (fase = "validador_concluido" /\ ~resultado.erro) =>
        \A i \in DOMAIN Submetidos :
            FeriasParciaisCoerentes(Submetidos[i]) =>
                \A k \in DOMAIN erros :
                    ~(/\ erros[k].matricula = Submetidos[i].matricula
                      /\ erros[k].regra \in RegrasDeFeriasEDias)

====
